---------------------------- MODULE Spec2Model ----------------------------
(***************************************************************************)
(* A model of terminaLLM's session protocol.                               *)
(*                                                                         *)
(* Two code paths are modelled, each under its own specification:          *)
(*                                                                         *)
(*   Spec     the terminal window (components/Terminal.tsx), the zustand   *)
(*            store (store/terminalStore.ts) and the oracle call of        *)
(*            utils/llm.ts (sendCommandToLLM, the ---directory--- reply    *)
(*            grammar);                                                    *)
(*   LiveSpec Spec with the fairness of the oracle call settling;          *)
(*   PCSpec   processCommand of utils/terminal.ts (the ---actions---       *)
(*            reply grammar) against a session context.                    *)
(*                                                                         *)
(* Text.  A JavaScript string is modelled as a sequence of tokens whose    *)
(* concatenation is the string: <<"---", "output", "---", "\n", "hello">>  *)
(* is "---output---\nhello".  The delimiter "---", the separator "/" and   *)
(* the white space " ", "\n" are always tokens of their own, and no other  *)
(* token contains "---" or "/" or starts or ends with white space, so that *)
(* split('---'), split('/'), trim() and the marker searches act on tokens  *)
(* exactly as the code's act on characters.  Text typed by the user is     *)
(* spelled one character per token, so that Len is the string's length.    *)
(* The JSON text of an actions block is one token, read by JSONParse.      *)
(* Timestamps (new Date().toISOString()) are left out of the records.      *)
(***************************************************************************)
EXTENDS Naturals, Sequences, FiniteSets

(***************************************************************************)
(* Bounds of the model.                                                    *)
(***************************************************************************)
\* Enter key presses explored in the terminal window.
MaxSubmits == 3
\* processCommand exchanges explored.
MaxExchanges == 2

(***************************************************************************)
(* String primitives (String.prototype.trim, split, filter(Boolean)).      *)
(***************************************************************************)
\* The characters String.prototype.trim strips: the WhiteSpace and the
\* LineTerminator characters of ECMAScript.  A character that has no escape
\* in a TLA+ string is the token of its code point.
WhiteSpace ==
  { " ", "\n", "\t", "\r", "\f", "U+000B", "U+00A0", "U+1680", "U+2000",
    "U+2001", "U+2002", "U+2003", "U+2004", "U+2005", "U+2006", "U+2007",
    "U+2008", "U+2009", "U+200A", "U+2028", "U+2029", "U+202F", "U+205F",
    "U+3000", "U+FEFF" }

RECURSIVE TrimStart(_)
TrimStart(s) ==
  IF s # <<>> /\ Head(s) \in WhiteSpace THEN TrimStart(Tail(s)) ELSE s

RECURSIVE TrimEnd(_)
TrimEnd(s) ==
  IF s # <<>> /\ s[Len(s)] \in WhiteSpace
    THEN TrimEnd(SubSeq(s, 1, Len(s) - 1))
    ELSE s

Trim(s) == TrimEnd(TrimStart(s))

RECURSIVE SplitAcc(_, _, _, _)
SplitAcc(s, d, cur, acc) ==
  IF s = <<>> THEN Append(acc, cur)
  ELSE IF Head(s) = d THEN SplitAcc(Tail(s), d, <<>>, Append(acc, cur))
  ELSE SplitAcc(Tail(s), d, Append(cur, Head(s)), acc)

\* s.split(d): the pieces of s between the occurrences of the token d.
Split(s, d) == SplitAcc(s, d, <<>>, <<>>)

\* parts.filter(Boolean): the non-empty pieces.
FilterBoolean(parts) == SelectSeq(parts, LAMBDA p : p # <<>>)

RECURSIVE Flatten(_)
Flatten(parts) ==
  IF parts = <<>> THEN <<>> ELSE Head(parts) \o Flatten(Tail(parts))

\* path.split('/').filter(Boolean) as a sequence of segment names.
Segments(path) == Flatten(FilterBoolean(Split(path, "/")))

\* The least index at which the marker ---name--- starts in s, 0 if none.
FindMarker(s, name) ==
  LET hits == { i \in 1..Len(s) : /\ i + 2 <= Len(s)
                                  /\ s[i] = "---"
                                  /\ s[i + 1] = name
                                  /\ s[i + 2] = "---" }
  IN IF hits = {} THEN 0
     ELSE CHOOSE i \in hits : \A j \in hits : i <= j

\* The text after position i (exclusive).
After(s, i) == SubSeq(s, i + 1, Len(s))

(***************************************************************************)
(* State.                                                                  *)
(***************************************************************************)
VARIABLES
  \* store/terminalStore.ts
  apiKey,            \* <<>> (null) or <<key>>
  isProcessing,
  currentDirectory,
  history,
  \* utils/llm.ts
  client,            \* <<>> (null) or <<key the client was created with>>
  pending,           \* the oracle calls of sendCommandToLLM not yet settled
  rejected,          \* the commands of the executeCommand calls whose
                     \* sendCommandToLLM threw, their catch not yet run
  exitCode,          \* <<>> or <<exitCode of the CommandResult the last
                     \*      executeCommand to finish returned>>
  \* the user at the keyboard
  submissions,       \* Enter key presses so far
  dropped,           \* those that met a disabled input
  confirmed,         \* an oracle call made with the client has succeeded
  \* utils/terminal.ts (processCommand and its session context)
  pcClient,
  transcript,
  currentPath,
  mirror,
  pcPending,         \* the commands of the calls of processCommand that
                     \* await their answer, in the order they were made
  pcReply,           \* <<>> or <<the reply text the last step handled>>
  pcReturned,        \* <<>> or <<what the last processCommand to end returned>>
  prePath,           \* the path and the mirror at the beginning of the last
  preMirror,         \* step of processCommand
  fsCalls,           \* the calls on context.fileSystem of the last step
  exchanges,
  \* lib/filesystem.ts (class FileSystem) and lib/commands.ts
  fsRoot,            \* the nodes of this.root reachable through `children`
  fsCwd,             \* this.currentDirectory
  fsLog,             \* the createNode calls so far (its console.log lines)
  fsOut,             \* <<>> or <<the last command and its CommandResult>>
  fsOps,             \* commands run so far
  \* terminalStore.addHistory of utils/terminal.ts, called on its own
  appended,          \* every entry given to addHistory since the last clear
  \* the two path resolvers, called on their own
  rsCur,             \* the current path given to the resolvers
  rsExpr,            \* the path expression given to them
  rsOut,             \* what resolvePath of utils/system.ts returned
  rsLibOut,          \* what FileSystem.resolvePath returned
  \* two runs of the terminal window, side by side
  runA,              \* the store, the client and the outstanding calls of
                     \* either run, and `sent`, the texts of the requests
  runB               \* it has made so far

uiVars == <<apiKey, isProcessing, currentDirectory, history, client, pending,
            rejected, exitCode, submissions, dropped, confirmed>>
pcVars == <<pcClient, transcript, currentPath, mirror, pcPending, pcReply,
            pcReturned, prePath, preMirror, fsCalls, exchanges>>
fsVars == <<fsRoot, fsCwd, fsLog, fsOut, fsOps>>
thVars == <<appended>>
rsVars == <<rsCur, rsExpr, rsOut, rsLibOut>>
twVars == <<runA, runB>>
vars == <<uiVars, pcVars, fsVars, thVars, rsVars, twVars>>

(***************************************************************************)
(* utils/llm.ts: sendCommandToLLM's reading of the reply.                  *)
(***************************************************************************)
\* content.match(/---output---([\s\S]*?)(?:---directory---|$)/): the capture,
\* from the first ---output--- to the first ---directory--- after it, or to
\* the end of the text.
OutputMatch(content) ==
  LET o == FindMarker(content, "output")
      rest == After(content, o + 2)
      d == FindMarker(rest, "directory")
  IN IF o = 0 THEN [matched |-> FALSE, text |-> <<>>]
     ELSE [matched |-> TRUE,
           text |-> IF d = 0 THEN rest ELSE SubSeq(rest, 1, d - 1)]

\* content.match(/---directory---([\s\S]*?)$/): from the first ---directory---
\* to the end of the text.
DirectoryMatch(content) ==
  LET d == FindMarker(content, "directory")
  IN IF d = 0 THEN [matched |-> FALSE, text |-> <<>>]
     ELSE [matched |-> TRUE, text |-> After(content, d + 2)]

ParseLLMReply_UntrimmedDirectory(content) ==
  LET om == OutputMatch(content)
      dm == DirectoryMatch(content)
  IN [output |-> IF om.matched THEN Trim(om.text) ELSE <<"No output">>,
      newDirectory |-> [defined |-> dm.matched, text |-> dm.text],
      exitCode |-> 0]

\* The CommandResult of a call the oracle answered with the text `content`.
ParseLLMReply(content) ==
  LET om == OutputMatch(content)
      dm == DirectoryMatch(content)
  IN [output |-> IF om.matched THEN Trim(om.text) ELSE <<"No output">>,
      newDirectory |-> [defined |-> dm.matched, text |-> Trim(dm.text)],
      exitCode |-> 0]

\* The CommandResult of a call that threw inside sendCommandToLLM's try.
LLMErrorResult(message) ==
  [output |-> <<"Error: ">> \o message,
   newDirectory |-> [defined |-> FALSE, text |-> <<>>],
   exitCode |-> 1]

(***************************************************************************)
(* The terminal window and the store.                                      *)
(***************************************************************************)
\* What the user may type before pressing Enter.
BlankInput == <<" ", " ">>
ShortKey   == <<"a", "b", "c">>
PaddedKey  == <<" ", "a", "b", "c", "d", "e", "f", "g", "h", "i", " ">>
LongKey    == <<"s", "k", "-", "a", "n", "t", "-", "0", "0", "1">>
LsCommand  == <<"l", "s">>
CdCommand  == <<"c", "d", " ", "t", "m", "p">>
Inputs == {BlankInput, ShortKey, PaddedKey, LongKey, LsCommand, CdCommand}

\* The probe handleApiKeySubmission sends once the key is stored.
ProbeCommand == <<"echo \"Terminal ready. API connection established.\"">>
KeyPlaceholder == <<"[API Key Input]">>
KeyFormatError ==
  <<"Error: Invalid API key format. Please enter a valid Anthropic API key.">>
KeyAccepted == <<"API key accepted.">>
ClientMissing ==
  <<"API client not initialized. Please provide an API key first.">>

\* What the oracle may answer (the text of content[0]) ...
LLMReplies ==
  { <<"---", "output", "---", "\n", "hello", "\n">>,
    <<"---", "output", "---", "\n", "\n",
      "---", "directory", "---", "\n", "/", "tmp", "\n">>,
    <<"---", "output", "---", "\n", "x", "\n",
      "---", "directory", "---", "\n", " ", "\n">>,
    <<"---", "output", "---", "\n", "\n",
      "---", "directory", "---", "\n", "/", "nosuch", "\n">>,
    <<"hello">>,
    <<"---", "output", "---", "\n", "hello", "\n", "---", "output", "---",
      "\n", "---", "actions", "---", "\n", "{}", "\n",
      "---", "actions", "---">> }
\* ... and the messages of the errors the call may reject with.
LLMFailures == { <<"401 invalid x-api-key">>, <<"Connection error.">> }

HomeDirectory == <<"/", "home", "/", "user">>

\* Terminal.tsx's <input disabled={isProcessing}>: a disabled input receives
\* no key events, so handleKeyPress does not run.
InputDisabled_Never == FALSE
InputDisabled == isProcessing

\* The key check of handleApiKeySubmission: !key || key.trim().length < 10.
MinKeyLength == 10
KeyTooShort(key) == key = <<>> \/ Len(Trim(key)) < MinKeyLength

\* addToHistory: the entry gets the id history.length + 1.
AddToHistory(h, entry) ==
  Append(h, [id |-> Len(h) + 1, command |-> entry.command,
             output |-> entry.output, directory |-> entry.directory])

\* history.slice(-5).map(h => h.command)
RecentCommands(h) ==
  [i \in 1..(IF Len(h) < 5 THEN Len(h) ELSE 5) |->
     h[(IF Len(h) < 5 THEN 0 ELSE Len(h) - 5) + i].command]

\* The CommandResult executeCommand's catch returns for an error thrown with
\* `message`.
CatchResult_ExitZero(message) ==
  [output |-> <<"Error: ">> \o message,
   newDirectory |-> [defined |-> FALSE, text |-> <<>>],
   exitCode |-> 0]
CatchResult(message) ==
  [output |-> <<"Error: ">> \o message,
   newDirectory |-> [defined |-> FALSE, text |-> <<>>],
   exitCode |-> 1]

\* executeCommand's finally: the value of isProcessing once the exchange with
\* the CommandResult `result` is over.
FinallyProcessing_OnlyOnSuccess(result) == result.exitCode # 0
FinallyProcessing(result) == FALSE

\* executeCommand up to its await: isProcessing is set, the directory and the
\* history are read, and sendCommandToLLM, an async function, either throws
\* at once (no client: its promise is rejected, and executeCommand's catch
\* and finally run when the await resumes, in a later microtask) or issues
\* the oracle call.  h is the history and cl the client of utils/llm.ts at
\* the time of the call.  An outstanding call keeps what executeCommand
\* holds across its await: the command, and the directory and the history
\* read.
ExecuteCommand_LeavesFlag(command, h, cl) ==
  /\ history' = h
  /\ isProcessing' = isProcessing
  /\ exitCode' = exitCode
  /\ rejected' = IF cl = <<>> THEN Append(rejected, command) ELSE rejected
  /\ pending' = IF cl = <<>> THEN pending
                ELSE Append(pending,
                       [command |-> command,
                        directory |-> currentDirectory,
                        history |-> h,
                        system |-> [currentDirectory |-> currentDirectory,
                                    recentCommands |-> RecentCommands(h)],
                        key |-> cl[1]])
ExecuteCommand_RecordsFirst(command, h, cl) ==
  /\ history' = AddToHistory(h, [command |-> command, output |-> <<>>,
                                  directory |-> currentDirectory])
  /\ isProcessing' = TRUE
  /\ exitCode' = exitCode
  /\ rejected' = IF cl = <<>> THEN Append(rejected, command) ELSE rejected
  /\ pending' = IF cl = <<>> THEN pending
                ELSE Append(pending,
                       [command |-> command,
                        directory |-> currentDirectory,
                        history |-> h,
                        system |-> [currentDirectory |-> currentDirectory,
                                    recentCommands |-> RecentCommands(h)],
                        key |-> cl[1]])
ExecuteCommand(command, h, cl) ==
  IF cl = <<>>
    THEN /\ history' = h
         /\ isProcessing' = TRUE
         /\ exitCode' = exitCode
         /\ pending' = pending
         /\ rejected' = Append(rejected, command)
    ELSE /\ history' = h
         /\ isProcessing' = TRUE
         /\ exitCode' = exitCode
         /\ rejected' = rejected
         /\ pending' = Append(pending,
                         [command |-> command,
                          directory |-> currentDirectory,
                          history |-> h,
                          system |-> [currentDirectory |-> currentDirectory,
                                      recentCommands |-> RecentCommands(h)],
                          key |-> cl[1]])

\* handleApiKeySubmission(key).  Its catch is not modelled: initializeClient
\* of utils/llm.ts only constructs the client and executeCommand catches
\* every error of the exchange, so nothing in the try can throw.
HandleApiKeySubmission(key) ==
  IF KeyTooShort(key)
    THEN /\ apiKey' = <<>>
         /\ history' = AddToHistory(history,
                         [command |-> KeyPlaceholder,
                          output |-> KeyFormatError,
                          directory |-> currentDirectory])
         /\ isProcessing' = FALSE
         /\ UNCHANGED <<client, pending, rejected, exitCode, confirmed>>
    ELSE \* initializeClient(key); setApiKey(key); addToHistory; the probe.
         /\ client' = <<key>>
         /\ apiKey' = <<key>>
         /\ confirmed' = FALSE
         /\ ExecuteCommand(ProbeCommand,
                           AddToHistory(history,
                             [command |-> KeyPlaceholder,
                              output |-> KeyAccepted,
                              directory |-> currentDirectory]),
                           <<key>>)

\* handleKeyPress on Enter, with `input` in the input field: handleCommand.
PressEnter(input) ==
  /\ submissions < MaxSubmits
  /\ submissions' = submissions + 1
  /\ UNCHANGED <<currentDirectory, pcVars, fsVars, thVars, rsVars, twVars>>
  /\ IF InputDisabled
       THEN /\ dropped' = dropped + 1
            /\ UNCHANGED <<apiKey, isProcessing, history, client, pending,
                           rejected, exitCode, confirmed>>
       ELSE /\ dropped' = dropped
            /\ IF Trim(input) = <<>>
                 THEN UNCHANGED <<apiKey, isProcessing, history, client,
                                  pending, rejected, exitCode, confirmed>>
                 ELSE IF apiKey = <<>>
                   THEN HandleApiKeySubmission(input)
                   ELSE /\ ExecuteCommand(input, history, client)
                        /\ UNCHANGED <<apiKey, client, confirmed>>

\* executeCommand after its await, for the i-th outstanding call and the
\* CommandResult sendCommandToLLM returned for it: one history record with
\* the directory read before the call, the directory change, the finally.
Settle_RecordsNewDirectory(i, result) ==
  /\ currentDirectory' =
       IF result.newDirectory.defined /\ result.newDirectory.text # <<>>
         THEN result.newDirectory.text
         ELSE currentDirectory
  /\ history' = AddToHistory(history,
                  [command |-> pending[i].command,
                   output |-> result.output,
                   directory |-> currentDirectory'])
  /\ isProcessing' = FinallyProcessing(result)
  /\ exitCode' = <<result.exitCode>>
  /\ pending' = [j \in 1..(Len(pending) - 1) |->
                   IF j < i THEN pending[j] ELSE pending[j + 1]]
  /\ UNCHANGED <<apiKey, client, rejected, submissions, dropped, pcVars,
                 fsVars, thVars, rsVars, twVars>>
Settle(i, result) ==
  /\ history' = AddToHistory(history,
                  [command |-> pending[i].command,
                   output |-> result.output,
                   directory |-> pending[i].directory])
  /\ currentDirectory' =
       IF result.newDirectory.defined /\ result.newDirectory.text # <<>>
         THEN result.newDirectory.text
         ELSE currentDirectory
  /\ isProcessing' = FinallyProcessing(result)
  /\ exitCode' = <<result.exitCode>>
  /\ pending' = [j \in 1..(Len(pending) - 1) |->
                   IF j < i THEN pending[j] ELSE pending[j + 1]]
  /\ UNCHANGED <<apiKey, client, rejected, submissions, dropped, pcVars,
                 fsVars, thVars, rsVars, twVars>>

\* The oracle answers an outstanding call.  An answer arrives in a task of
\* its own, after the microtasks that are due have run.
OracleResolves ==
  \E i \in 1..Len(pending) : \E content \in LLMReplies :
    /\ rejected = <<>>
    /\ Settle(i, ParseLLMReply(content))
    /\ confirmed' = TRUE

\* An outstanding call fails (a transport error, a rejected credential).
OracleRejects ==
  \E i \in 1..Len(pending) : \E message \in LLMFailures :
    /\ rejected = <<>>
    /\ Settle(i, LLMErrorResult(message))
    /\ confirmed' = confirmed

(***************************************************************************)
(* Two runs of the terminal window side by side.  A run is a record of the *)
(* store's fields, the client of utils/llm.ts and the outstanding calls,   *)
(* with `sent`, the texts of the oracle requests the run has made; the     *)
(* handlers are the ones above, written as functions of the run.           *)
(***************************************************************************)
FreshRun ==
  [apiKey |-> <<>>, isProcessing |-> FALSE,
   currentDirectory |-> HomeDirectory, history |-> <<>>, client |-> <<>>,
   pending |-> <<>>, rejected |-> <<>>, exitCode |-> <<>>,
   submissions |-> 0, dropped |-> 0, confirmed |-> FALSE, sent |-> <<>>]

\* What sendCommandToLLM puts in the request: the user message and what the
\* system prompt interpolates.
RequestOf(command, directory, h) ==
  [command |-> command,
   system |-> [currentDirectory |-> directory,
               recentCommands |-> RecentCommands(h)]]

\* executeCommand up to its await.
RunExecuteCommand(s, command, h, cl) ==
  IF cl = <<>>
    THEN [s EXCEPT !.history = h, !.isProcessing = TRUE,
                   !.rejected = Append(@, command)]
    ELSE [s EXCEPT !.history = h, !.isProcessing = TRUE,
                   !.pending =
                     Append(@, [command |-> command,
                                directory |-> s.currentDirectory,
                                history |-> h,
                                system |->
                                  RequestOf(command, s.currentDirectory,
                                            h).system,
                                key |-> cl[1]]),
                   !.sent =
                     Append(@, RequestOf(command, s.currentDirectory, h))]

\* handleApiKeySubmission(key)
RunHandleApiKeySubmission(s, key) ==
  IF KeyTooShort(key)
    THEN [s EXCEPT !.apiKey = <<>>,
                   !.history = AddToHistory(@,
                                 [command |-> KeyPlaceholder,
                                  output |-> KeyFormatError,
                                  directory |-> s.currentDirectory]),
                   !.isProcessing = FALSE]
    ELSE RunExecuteCommand(
           [s EXCEPT !.client = <<key>>, !.apiKey = <<key>>,
                     !.confirmed = FALSE],
           ProbeCommand,
           AddToHistory(s.history,
             [command |-> KeyPlaceholder, output |-> KeyAccepted,
              directory |-> s.currentDirectory]),
           <<key>>)

\* handleKeyPress on Enter, with `input` in the input field.
RunPressEnter(s, input) ==
  LET t == [s EXCEPT !.submissions = @ + 1]
  IN IF s.isProcessing THEN [t EXCEPT !.dropped = @ + 1]
     ELSE IF Trim(input) = <<>> THEN t
     ELSE IF s.apiKey = <<>> THEN RunHandleApiKeySubmission(t, input)
     ELSE RunExecuteCommand(t, input, t.history, t.client)

\* executeCommand after its await, for the i-th outstanding call.
RunSettle(s, i, result) ==
  [s EXCEPT
     !.history = AddToHistory(@, [command |-> s.pending[i].command,
                                  output |-> result.output,
                                  directory |-> s.pending[i].directory]),
     !.currentDirectory =
       IF result.newDirectory.defined /\ result.newDirectory.text # <<>>
         THEN result.newDirectory.text
         ELSE @,
     !.isProcessing = FinallyProcessing(result),
     !.exitCode = <<result.exitCode>>,
     !.pending = [j \in 1..(Len(s.pending) - 1) |->
                    IF j < i THEN s.pending[j] ELSE s.pending[j + 1]]]

\* The oracle's answer reaches the run, if the run has a call outstanding.
RunAnswer(s, result, ok) ==
  IF s.pending = <<>> \/ s.rejected # <<>> THEN s
  ELSE [RunSettle(s, 1, result) EXCEPT
          !.confirmed = IF ok THEN TRUE ELSE @]

\* The texts that may be typed: the inputs of the window and a second
\* credential of the accepted format.
Typed == Inputs \cup { <<"s", "k", "-", "a", "n", "t", "-", "0", "0", "2">> }

\* Enter is pressed in both runs, with `a` in the input field of the one and
\* `b` in that of the other: the same text, or two credential values where
\* both sessions await a credential (none is stored, or the oracle has not
\* accepted the one that is) with the input enabled.
TwoRunsEnter ==
  \E a \in Typed : \E b \in Typed :
    /\ runA.submissions < MaxSubmits
    /\ a # b => /\ runA.apiKey = <<>> \/ ~runA.confirmed
                /\ runB.apiKey = <<>> \/ ~runB.confirmed
                /\ ~runA.isProcessing
                /\ ~runB.isProcessing
    /\ runA' = RunPressEnter(runA, a)
    /\ runB' = RunPressEnter(runB, b)
    /\ UNCHANGED <<uiVars, pcVars, fsVars, thVars, rsVars>>

\* The oracle gives the same answer to the call outstanding in either run.
TwoRunsResolve ==
  \E content \in LLMReplies :
    /\ runA.pending # <<>> \/ runB.pending # <<>>
    /\ runA' = RunAnswer(runA, ParseLLMReply(content), TRUE)
    /\ runB' = RunAnswer(runB, ParseLLMReply(content), TRUE)
    /\ UNCHANGED <<uiVars, pcVars, fsVars, thVars, rsVars>>

TwoRunsReject ==
  \E message \in LLMFailures :
    /\ runA.pending # <<>> \/ runB.pending # <<>>
    /\ runA' = RunAnswer(runA, LLMErrorResult(message), FALSE)
    /\ runB' = RunAnswer(runB, LLMErrorResult(message), FALSE)
    /\ UNCHANGED <<uiVars, pcVars, fsVars, thVars, rsVars>>

(***************************************************************************)
(* The functions of the store and initializeClient of utils/llm.ts, called *)
(* on their own, without the window's input field in between.  The window *)
(* sets the key and the client together, so it never runs executeCommand   *)
(* without a client; a caller of the store can.                            *)
(***************************************************************************)
StoreCommands == {LsCommand, CdCommand}

\* useTerminalStore.getState().executeCommand(command); the calls are counted
\* with the submissions.
CallExecuteCommand(command) ==
  /\ submissions < MaxSubmits
  /\ submissions' = submissions + 1
  /\ ExecuteCommand(command, history, client)
  /\ UNCHANGED <<apiKey, currentDirectory, client, dropped, confirmed,
                 pcVars, fsVars, thVars, rsVars, twVars>>

\* The await of the oldest executeCommand whose sendCommandToLLM threw
\* resumes: the catch adds the error record with the directory the store
\* holds now and returns the error result, the finally clears the flag.
ExecuteCommandCatch ==
  /\ rejected # <<>>
  /\ rejected' = Tail(rejected)
  /\ history' = AddToHistory(history,
                  [command |-> Head(rejected),
                   output |-> CatchResult(ClientMissing).output,
                   directory |-> currentDirectory])
  /\ exitCode' = <<CatchResult(ClientMissing).exitCode>>
  /\ isProcessing' = FinallyProcessing(CatchResult(ClientMissing))
  /\ UNCHANGED <<apiKey, currentDirectory, client, pending, submissions,
                 dropped, confirmed, pcVars, fsVars, thVars, rsVars,
                 twVars>>

\* initializeClient(LongKey)
CallInitializeClient ==
  /\ client' = <<LongKey>>
  /\ UNCHANGED <<apiKey, isProcessing, currentDirectory, history, pending,
                 rejected, exitCode, submissions, dropped, confirmed,
                 pcVars, fsVars, thVars, rsVars, twVars>>

\* The calls of the store's other functions are counted with the
\* submissions.

\* setApiKey(key), with null or a key
CallSetApiKey ==
  /\ submissions < MaxSubmits
  /\ submissions' = submissions + 1
  /\ \E key \in {<<>>, <<LongKey>>} : apiKey' = key
  /\ UNCHANGED <<isProcessing, currentDirectory, history, client, pending,
                 rejected, exitCode, dropped, confirmed,
                 pcVars, fsVars, thVars, rsVars, twVars>>

\* setProcessing(isProcessing)
CallSetProcessing ==
  /\ submissions < MaxSubmits
  /\ submissions' = submissions + 1
  /\ \E flag \in BOOLEAN : isProcessing' = flag
  /\ UNCHANGED <<apiKey, currentDirectory, history, client, pending,
                 rejected, exitCode, dropped, confirmed,
                 pcVars, fsVars, thVars, rsVars, twVars>>

\* addToHistory(entry)
CallAddToHistory ==
  /\ submissions < MaxSubmits
  /\ submissions' = submissions + 1
  /\ history' = AddToHistory(history,
                  [command |-> LsCommand, output |-> <<"x">>,
                   directory |-> <<"/", "tmp">>])
  /\ UNCHANGED <<apiKey, isProcessing, currentDirectory, client, pending,
                 rejected, exitCode, dropped, confirmed,
                 pcVars, fsVars, thVars, rsVars, twVars>>

\* resetTerminal()
CallResetTerminal ==
  /\ submissions < MaxSubmits
  /\ submissions' = submissions + 1
  /\ currentDirectory' = HomeDirectory
  /\ history' = <<>>
  /\ UNCHANGED <<apiKey, isProcessing, client, pending, rejected, exitCode,
                 dropped, confirmed,
                 pcVars, fsVars, thVars, rsVars, twVars>>

(***************************************************************************)
(* utils/terminal.ts: the replies processCommand may receive.              *)
(***************************************************************************)
EmptyBody == <<>>
HelloBody == <<"hello">>
\* "drwx------ user": a line of `ls -l` for a private directory.
PermBody == <<"drwx", "---", "---", " ", "user">>

JEmpty == "{}"
JCdTestdir == "{\"newPath\":\"/home/user/testdir\"}"
JCdTmp == "{\"newPath\":\"/tmp\"}"
JMkdir ==
  "{\"createFiles\":[{\"path\":\"testdir\",\"content\":\"\",\"type\":\"directory\"}]}"
JBadEntry ==
  "{\"newPath\":\"/tmp\",\"createFiles\":[{\"path\":\"a\",\"content\":\"\",\"type\":\"directory\"},{\"path\":\"b\",\"content\":\"\"}]}"
JRm == "{\"deleteFiles\":[\"tmp\"]}"
JRmMissing == "{\"deleteFiles\":[\"nosuch\",\"tmp\"]}"
\* A batch of all three kinds, its keys in the reverse of the order in which
\* processCommand applies them.
JAll ==
  "{\"deleteFiles\":[\"var\"],\"createFiles\":[{\"path\":\"a\",\"content\":\"\",\"type\":\"directory\"},{\"path\":\"a/f\",\"content\":\"x\",\"type\":\"file\"}],\"newPath\":\"/tmp\"}"
JMalformed == "{newPath: /tmp"
JNull == "null"

\* The reply grammar of the prompt (SYSTEM_PROMPT and "Format the response
\* EXACTLY as"): an ---output--- block, then an ---actions--- block.
CanonicalReply(body, json) ==
  <<"---", "output", "---", "\n">> \o body \o
  <<"\n", "---", "output", "---", "\n", "---", "actions", "---", "\n",
    json, "\n", "---", "actions", "---">>

\* A reply whose output block is not closed: ---output---, the body,
\* ---actions---, the JSON, ---actions---.
UnclosedReply(body, json) ==
  <<"---", "output", "---", "\n">> \o body \o
  <<"\n", "---", "actions", "---", "\n", json, "\n", "---", "actions", "---">>

\* The canonical reply without its last ---actions--- delimiter.
NoClosingActionsReply(body, json) ==
  <<"---", "output", "---", "\n">> \o body \o
  <<"\n", "---", "output", "---", "\n", "---", "actions", "---", "\n", json>>

\* A reply with an output block and no actions block.
OutputOnlyReply(body) ==
  <<"---", "output", "---", "\n">> \o body \o <<"\n", "---", "output", "---">>

\* A reply with an actions block and no output block.
ActionsOnlyReply(json) ==
  <<"---", "actions", "---", "\n", json, "\n", "---", "actions", "---">>

PlainReply == <<"hello">>

CanonicalReplies ==
  { CanonicalReply(HelloBody, JEmpty), CanonicalReply(PermBody, JEmpty),
    CanonicalReply(EmptyBody, JMkdir), CanonicalReply(EmptyBody, JCdTestdir),
    CanonicalReply(EmptyBody, JCdTmp), CanonicalReply(HelloBody, JBadEntry),
    CanonicalReply(HelloBody, JMalformed) }

UnclosedReplies ==
  { UnclosedReply(HelloBody, j) :
      j \in {JEmpty, JCdTestdir, JCdTmp, JMkdir, JBadEntry, JRm, JRmMissing,
             JAll, JMalformed, JNull} }

MalformedReplies ==
  { NoClosingActionsReply(HelloBody, JCdTmp), OutputOnlyReply(HelloBody),
    ActionsOnlyReply(JCdTmp), PlainReply, <<>> }

PCReplies == CanonicalReplies \cup UnclosedReplies \cup MalformedReplies

PCCommands == { <<"ls">>, <<"mkdir testdir">>, <<"[API Key Input]">> }
PCFailures == { <<"Connection error.">> }

(***************************************************************************)
(* JSON.parse on the texts above.  A value of the actions object is        *)
(* "absent" (undefined, or falsy), a "string", an "array" or "other".      *)
(***************************************************************************)
Absent == [kind |-> "absent", text |-> <<>>, items |-> <<>>]
StringValue(t) == [kind |-> "string", text |-> t, items |-> <<>>]
ArrayValue(xs) == [kind |-> "array", text |-> <<>>, items |-> xs]

\* An entry of createFiles; a missing path is <<>> and a missing type "".
FileEntry(path, type) == [path |-> path, type |-> type]
\* An entry of deleteFiles.
DeleteEntry(path) == [isString |-> TRUE, text |-> path]

ActionsObject(newPath, createFiles, deleteFiles) ==
  [kind |-> "object", newPath |-> newPath, createFiles |-> createFiles,
   deleteFiles |-> deleteFiles]
NotAnObject(kind) ==
  [kind |-> kind, newPath |-> Absent, createFiles |-> Absent,
   deleteFiles |-> Absent]

JSONParse(text) ==
  CASE text = JEmpty -> ActionsObject(Absent, Absent, Absent)
    [] text = JCdTestdir ->
         ActionsObject(
           StringValue(<<"/", "home", "/", "user", "/", "testdir">>),
           Absent, Absent)
    [] text = JCdTmp ->
         ActionsObject(StringValue(<<"/", "tmp">>), Absent, Absent)
    [] text = JMkdir ->
         ActionsObject(Absent,
           ArrayValue(<<FileEntry(<<"testdir">>, "directory")>>), Absent)
    [] text = JBadEntry ->
         ActionsObject(StringValue(<<"/", "tmp">>),
           ArrayValue(<<FileEntry(<<"a">>, "directory"),
                        FileEntry(<<"b">>, "")>>),
           Absent)
    [] text = JRm ->
         ActionsObject(Absent, Absent,
           ArrayValue(<<DeleteEntry(<<"tmp">>)>>))
    [] text = JRmMissing ->
         ActionsObject(Absent, Absent,
           ArrayValue(<<DeleteEntry(<<"nosuch">>), DeleteEntry(<<"tmp">>)>>))
    [] text = JAll ->
         ActionsObject(StringValue(<<"/", "tmp">>),
           ArrayValue(<<FileEntry(<<"a">>, "directory"),
                        FileEntry(<<"a", "/", "f">>, "file")>>),
           ArrayValue(<<DeleteEntry(<<"var">>)>>))
    [] text = JNull -> NotAnObject("null")
    [] OTHER -> NotAnObject("syntaxError")

\* JSON.parse on a trimmed piece of the reply: a piece of several tokens is
\* none of the JSON texts, and a SyntaxError.
JSONParseText(s) ==
  IF Len(s) = 1 THEN JSONParse(s[1]) ELSE NotAnObject("syntaxError")

(***************************************************************************)
(* The session context of processCommand (interface SessionContext).  The  *)
(* repository declares context.fileSystem and calls it, and holds no       *)
(* implementation of it: the mirror below follows the specification's      *)
(* Local Filesystem Mirror.  A path is the sequence of segment names from  *)
(* the root; the mirror is the set of its directories and of its files.    *)
(***************************************************************************)
\* The tree of initializeFileSystem (utils/system.ts).
InitialMirror ==
  [dirs |-> { <<>>, <<"bin">>, <<"etc">>, <<"home">>, <<"home", "user">>,
              <<"home", "user", "Documents">>,
              <<"home", "user", "Downloads">>,
              <<"home", "user", "Desktop">>,
              <<"usr">>, <<"usr", "bin">>, <<"usr", "local">>,
              <<"var">>, <<"var", "log">>, <<"tmp">> },
   files |-> { <<"home", "user", ".bash_history">>,
               <<"home", "user", ".bashrc">> }]
InitialPath == <<"home", "user">>

Prefix(p, n) == SubSeq(p, 1, n)
IsPrefix(p, q) == Len(p) <= Len(q) /\ Prefix(q, Len(p)) = p

\* getNode(path): the type of the node at path, "none" if there is none.
GetNode(m, path) ==
  IF path \in m.dirs THEN "directory"
  ELSE IF path \in m.files THEN "file"
  ELSE "none"

\* The session while processCommand applies a batch: whether a statement has
\* thrown, the current path, the mirror, and the mutating calls made on
\* context.fileSystem so far.
Outcome(threw, path, m, calls) ==
  [threw |-> threw, path |-> path, mirror |-> m, calls |-> calls]

\* The same session with a call having thrown.
Thrown(st) == Outcome(TRUE, st.path, st.mirror, st.calls)

\* changeDirectory(path): the current path becomes path when it is a
\* directory of the mirror; the call fails otherwise.
ChangeDirectory(st, path) ==
  IF GetNode(st.mirror, path) = "directory"
    THEN Outcome(FALSE, path, st.mirror, st.calls)
    ELSE Thrown(st)

\* createDirectory(path): mkdir -p.  Every missing ancestor is created; an
\* existing directory is left as it is; the call fails when a segment of the
\* path is a file.
CreateDirectory(st, path) ==
  IF \E n \in 1..Len(path) : Prefix(path, n) \in st.mirror.files
    THEN Thrown(st)
    ELSE Outcome(FALSE, st.path,
           [st.mirror EXCEPT
              !.dirs = @ \cup { Prefix(path, n) : n \in 1..Len(path) }],
           st.calls)

\* createFile(path, content): the parent must be a directory; an existing
\* file is left in place; the call fails on a directory of that name.
CreateFile(st, path) ==
  IF \/ path = <<>>
     \/ Prefix(path, Len(path) - 1) \notin st.mirror.dirs
     \/ path \in st.mirror.dirs
    THEN Thrown(st)
    ELSE Outcome(FALSE, st.path,
           [st.mirror EXCEPT !.files = @ \cup {path}], st.calls)

\* deleteNode(path): the node and everything below it is removed; the call
\* fails when there is no such node (or on the root).
DeleteNode(st, path) ==
  IF path = <<>> \/ GetNode(st.mirror, path) = "none"
    THEN Thrown(st)
    ELSE Outcome(FALSE, st.path,
           [dirs |-> { d \in st.mirror.dirs : ~IsPrefix(path, d) },
            files |-> { f \in st.mirror.files : ~IsPrefix(path, f) }],
           st.calls)

(***************************************************************************)
(* utils/terminal.ts: processCommand.                                      *)
(***************************************************************************)
NotInitialized ==
  <<"Error: Terminal not initialized. Please provide a valid Claude API key.">>
InvalidResponse == <<"Error: Invalid response from the model">>
InvalidOutputFormat == <<"Error: Invalid command output format">>
InvalidActionFormat == <<"Error: Invalid command action format">>

\* The history window of terminalStore.addHistory.
HistoryWindow == 10

\* terminalStore.addHistory: push, then shift once past the window.
AddHistory_DropsNewest(t, entry) ==
  IF Len(t) + 1 > HistoryWindow THEN t ELSE Append(t, entry)
AddHistory(t, entry) ==
  IF Len(t) + 1 > HistoryWindow THEN Tail(Append(t, entry))
  ELSE Append(t, entry)

\* getNode([])?.type === 'directory' ? getNode([])?.content : {}
RootContent(m) ==
  IF GetNode(m, <<>>) = "directory" THEN m ELSE [dirs |-> {}, files |-> {}]

\* The entry processCommand records: the command, the output, a copy of the
\* session's path, and the content object of the root itself, not a copy of
\* it: `files` is what that object shows, and `live` says that it is an
\* object of the tree (and not the literal {}).
TranscriptEntry(command, output, st) ==
  [command |-> command, output |-> output, currentPath |-> st.path,
   files |-> RootContent(st.mirror),
   live |-> GetNode(st.mirror, <<>>) = "directory"]

\* What an object of the tree that showed `files` before a step may show
\* after it, the tree having been `pre` before the step and each mirror of
\* `during` at some moment of it.  Which objects the file system changes in
\* place, which it replaces by copies, and which objects a copy shares with
\* the original, is not fixed by the interface: a path the step touched
\* shows what it showed before or what the tree showed at some moment of the
\* step, each path by itself, as long as the whole is a tree; a path the
\* step did not touch (one that every mirror of `during` shows as `pre`
\* does) shows what it showed.
Views(files, pre, during) ==
  LET touched ==
        { p \in UNION { m.dirs \cup m.files : m \in during \cup {pre} } :
            \E m \in during : GetNode(m, p) # GetNode(pre, p) }
      choices ==
        { c \in [touched -> {"directory", "file", "none"}] :
            \A p \in touched :
              \/ c[p] = GetNode(files, p)
              \/ \E m \in during : c[p] = GetNode(m, p) }
      Shows(c) ==
        [dirs |-> (files.dirs \ touched)
                    \cup { p \in touched : c[p] = "directory" },
         files |-> (files.files \ touched)
                    \cup { p \in touched : c[p] = "file" }]
      IsTree(v) ==
        \A p \in v.dirs \cup v.files :
          \A n \in 0..(Len(p) - 1) : Prefix(p, n) \in v.dirs
  IN { v \in { Shows(c) : c \in choices } : IsTree(v) }

\* The transcripts the entries recorded earlier may make up after such a
\* step: every entry that holds an object of the tree shows one of its
\* views.
Realias(t, pre, during) ==
  LET views(i) == IF t[i].live THEN Views(t[i].files, pre, during)
                  ELSE {t[i].files}
  IN { [i \in 1..Len(t) |-> [t[i] EXCEPT !.files = f[i]]] :
         f \in { g \in [1..Len(t) -> UNION { views(i) : i \in 1..Len(t) }] :
                   \A i \in 1..Len(t) : g[i] \in views(i) } }

\* parts.length < 5: the reply has too few ----separated pieces.
MinParts == 5
TooFewParts_Never(parts) == FALSE
TooFewParts(parts) == Len(parts) < MinParts

\* parts[2]?.trim() || '' and parts[4]?.trim() (parts is 0-based in the code).
TerminalOutput(parts) == IF Len(parts) >= 3 THEN Trim(parts[3]) ELSE <<>>
ActionsJson(parts) == IF Len(parts) >= 5 THEN Trim(parts[5]) ELSE <<>>

\* The shape checks that precede every action.
ShapeInvalid(actions) ==
  \/ actions.newPath.kind \notin {"absent", "string"}
  \/ actions.createFiles.kind \notin {"absent", "array"}
  \/ actions.deleteFiles.kind \notin {"absent", "array"}

\* The check of one createFiles entry, made when the loop reaches it.
EntryInvalid(file) ==
  \/ file.path = <<>>
  \/ file.type = ""
  \/ file.type \notin {"file", "directory"}

\* The session with the call op(path) on context.fileSystem noted.
Called(st, op, path) ==
  [st EXCEPT !.calls = Append(@, [op |-> op, path |-> path])]

\* if (actions.newPath) changeDirectory(newPath.split('/').filter(Boolean))
ApplyNewPath(st, actions) ==
  IF actions.newPath.kind = "string" /\ actions.newPath.text # <<>>
    THEN ChangeDirectory(
           Called(st, "changeDirectory", Segments(actions.newPath.text)),
           Segments(actions.newPath.text))
    ELSE st

\* for (const file of actions.createFiles): check the entry, then create it.
RECURSIVE ApplyCreates(_, _)
ApplyCreates(st, files) ==
  IF st.threw \/ files = <<>> THEN st
  ELSE IF EntryInvalid(Head(files))
    THEN Thrown(st)
  ELSE ApplyCreates(
         IF Head(files).type = "directory"
           THEN CreateDirectory(
                  Called(st, "createDirectory", Segments(Head(files).path)),
                  Segments(Head(files).path))
           ELSE CreateFile(
                  Called(st, "createFile", Segments(Head(files).path)),
                  Segments(Head(files).path)),
         Tail(files))

\* for (const file of actions.deleteFiles): check the entry, then delete it.
RECURSIVE ApplyDeletes(_, _)
ApplyDeletes(st, files) ==
  IF st.threw \/ files = <<>> THEN st
  ELSE IF ~Head(files).isString
    THEN Thrown(st)
  ELSE ApplyDeletes(
         DeleteNode(Called(st, "deleteNode", Segments(Head(files).text)),
                    Segments(Head(files).text)),
         Tail(files))

\* The try block around the actions, from the shape checks to the deletes:
\* the first throw ends it, with whatever was applied before left in place.
ApplyActions_DeletesFirst(st, actions) ==
  IF actions.kind # "object" \/ ShapeInvalid(actions)
    THEN Thrown(st)
    ELSE LET de == ApplyDeletes(st, actions.deleteFiles.items)
             cr == ApplyCreates(de, actions.createFiles.items)
         IN ApplyNewPath(cr, actions)
ApplyActions(st, actions) ==
  IF actions.kind # "object" \/ ShapeInvalid(actions)
    THEN Thrown(st)
    ELSE LET cd == ApplyNewPath(st, actions)
             cr == ApplyCreates(cd, actions.createFiles.items)
         IN ApplyDeletes(cr, actions.deleteFiles.items)

\* The catch of JSON.parse: the output is recorded and returned, and no
\* action is applied.
ParseFailure_Fatal(command, output, st, t) ==
  [returned |-> InvalidActionFormat, st |-> st, transcript |-> t]
ParseFailure(command, output, st, t) ==
  [returned |-> output, st |-> st,
   transcript |-> AddHistory(t, TranscriptEntry(command, output, st))]

\* processCommand from the reply text on: what it returns, the session's
\* path and mirror, and the transcript.
ProcessReply(command, text, st, t) ==
  LET parts == Split(text, "---")
  IN IF TooFewParts(parts)
       THEN [returned |-> InvalidOutputFormat, st |-> st, transcript |-> t]
     ELSE LET output == TerminalOutput(parts)
              json == ActionsJson(parts)
          IN IF json = <<>>
               THEN [returned |-> output, st |-> st, transcript |-> t]
             ELSE LET actions == JSONParseText(json)
                      done == ApplyActions(st, actions)
                  IN IF actions.kind = "syntaxError"
                       THEN ParseFailure(command, output, st, t)
                     ELSE IF done.threw
                       THEN [returned |-> InvalidActionFormat,
                             st |-> done,
                             transcript |-> t]
                     ELSE [returned |-> output, st |-> done,
                           transcript |->
                             AddHistory(t,
                               TranscriptEntry(command, output, done))]

\* The mirrors the session passes through while the reply `text` is handled,
\* from the one before the first call on context.fileSystem to the last.
MirrorsDuring(text, st) ==
  LET parts == Split(text, "---")
      actions == JSONParseText(ActionsJson(parts))
      cd == ApplyNewPath(st, actions)
      creates == actions.createFiles.items
      cr == ApplyCreates(cd, creates)
      deletes == actions.deleteFiles.items
  IN IF \/ TooFewParts(parts)
        \/ ActionsJson(parts) = <<>>
        \/ actions.kind # "object"
        \/ ShapeInvalid(actions)
       THEN {st.mirror}
     ELSE { ApplyCreates(cd, SubSeq(creates, 1, j)).mirror :
              j \in 0..Len(creates) }
          \cup { ApplyDeletes(cr, SubSeq(deletes, 1, k)).mirror :
                   k \in 0..Len(deletes) }

\* initializeClient(apiKey) of utils/terminal.ts: it throws on an empty key
\* and leaves the client as it was.
PCInitializeClient(key) ==
  /\ pcClient' = IF key = <<>> THEN pcClient ELSE TRUE
  /\ UNCHANGED <<transcript, currentPath, mirror, pcPending, pcReply,
                 pcReturned, prePath, preMirror, fsCalls, exchanges, uiVars,
                 fsVars, thVars, rsVars, twVars>>

\* processCommand(command, context) up to its await.  Nothing in it looks
\* at the calls that are outstanding: a call can begin while others wait.
PCSubmit(command) ==
  /\ exchanges < MaxExchanges
  /\ exchanges' = exchanges + 1
  /\ pcReply' = <<>>
  /\ prePath' = currentPath
  /\ preMirror' = mirror
  /\ fsCalls' = <<>>
  /\ IF ~pcClient
       THEN pcReturned' = <<NotInitialized>> /\ pcPending' = pcPending
       ELSE IF command = KeyPlaceholder
         THEN pcReturned' = <<KeyAccepted>> /\ pcPending' = pcPending
         ELSE pcReturned' = <<>> /\ pcPending' = Append(pcPending, command)
  /\ UNCHANGED <<pcClient, transcript, currentPath, mirror, uiVars, fsVars,
                 thVars, rsVars, twVars>>

\* The outstanding calls without the i-th.
Answered(i) ==
  [j \in 1..(Len(pcPending) - 1) |->
     IF j < i THEN pcPending[j] ELSE pcPending[j + 1]]

\* The oracle answers the i-th outstanding call with the text `text`: the
\* rest of processCommand.
PCResolve(i, text) ==
  /\ i \in 1..Len(pcPending)
  /\ LET st == Outcome(FALSE, currentPath, mirror, <<>>)
     IN \E t \in Realias(transcript, mirror, MirrorsDuring(text, st)) :
          LET r == ProcessReply(pcPending[i], text, st, t)
          IN /\ pcReturned' = <<r.returned>>
             /\ fsCalls' = r.st.calls
             /\ currentPath' = r.st.path
             /\ mirror' = r.st.mirror
             /\ transcript' = r.transcript
  /\ pcReply' = <<text>>
  /\ prePath' = currentPath
  /\ preMirror' = mirror
  /\ pcPending' = Answered(i)
  /\ UNCHANGED <<pcClient, exchanges, uiVars, fsVars, thVars, rsVars,
                 twVars>>

\* The oracle's response to the i-th outstanding call holds no content
\* block.
PCEmptyResponse(i) ==
  /\ i \in 1..Len(pcPending)
  /\ pcReturned' = <<InvalidResponse>>
  /\ pcReply' = <<>>
  /\ prePath' = currentPath
  /\ preMirror' = mirror
  /\ fsCalls' = <<>>
  /\ pcPending' = Answered(i)
  /\ UNCHANGED <<pcClient, transcript, currentPath, mirror, exchanges,
                 uiVars, fsVars, thVars, rsVars, twVars>>

\* The i-th outstanding call rejects: processCommand's outer catch.
PCReject(i, message) ==
  /\ i \in 1..Len(pcPending)
  /\ pcReturned' = << <<"Error: ">> \o message >>
  /\ transcript' = AddHistory(transcript,
                     TranscriptEntry(pcPending[i], <<"Error: ">> \o message,
                                     Outcome(FALSE, currentPath, mirror,
                                             <<>>)))
  /\ pcReply' = <<>>
  /\ prePath' = currentPath
  /\ preMirror' = mirror
  /\ fsCalls' = <<>>
  /\ pcPending' = Answered(i)
  /\ UNCHANGED <<pcClient, currentPath, mirror, exchanges, uiVars, fsVars,
                 thVars, rsVars, twVars>>

(***************************************************************************)
(* lib/filesystem.ts: class FileSystem.  A path expression is a string, a  *)
(* path array the sequence of its segment names; the tree is given by the  *)
(* paths of the nodes that are reachable from this.root through            *)
(* `children`, directories and files apart.                                *)
(***************************************************************************)
MaxFsOps == 3

\* A root whose nodes hold their entries in `children`: the default tree.
\* `bare` is the set of the directories that have no `children` object.
ChildrenTree ==
  [dirs |-> InitialMirror.dirs, files |-> InitialMirror.files, bare |-> {}]
\* The root initializeFileSystem builds: createFSNode puts the entries in
\* `content` and sets no `children`, so no node is reachable below the root.
ContentTree == [dirs |-> {<<>>}, files |-> {}, bare |-> {<<>>}]
FSRoots == {ChildrenTree, ContentTree}

\* path.startsWith('/')
StartsWithSlash(path) == path # <<>> /\ path[1] = "/"

\* parts.join('/')
RECURSIVE Join(_)
Join(parts) ==
  IF parts = <<>> THEN <<>>
  ELSE IF Len(parts) = 1 THEN parts
  ELSE <<Head(parts), "/">> \o Join(Tail(parts))

\* The loop of FileSystem.resolvePath over the parts.
RECURSIVE ResolveParts(_, _)
ResolveParts(result, parts) ==
  IF parts = <<>> THEN result
  ELSE IF Head(parts) = "." THEN ResolveParts(result, Tail(parts))
  ELSE IF Head(parts) = ".."
    THEN ResolveParts(IF Len(result) > 0
                        THEN SubSeq(result, 1, Len(result) - 1)
                        ELSE result,
                      Tail(parts))
  ELSE ResolveParts(Append(result, Head(parts)), Tail(parts))

FileSystem_resolvePath_IgnoresCwd(cwd, path) ==
  IF path = <<>> THEN cwd ELSE ResolveParts(<<>>, Segments(path))

\* FileSystem.resolvePath(path), with cwd for this.currentDirectory.
FileSystem_resolvePath(cwd, path) ==
  IF path = <<>> THEN cwd
  ELSE ResolveParts(IF StartsWithSlash(path) THEN <<>> ELSE cwd,
                    Segments(path))

\* The names every `children` object answers to without holding an entry of
\* that name: the properties of Object.prototype, all of them truthy and
\* none with a `type` or with `children`.
PrototypeNames ==
  { "constructor", "hasOwnProperty", "isPrototypeOf", "propertyIsEnumerable",
    "toLocaleString", "toString", "valueOf", "__proto__",
    "__defineGetter__", "__defineSetter__", "__lookupGetter__",
    "__lookupSetter__" }

\* FileSystem.getNodeAtPath(pathArray): the type of the node the walk from
\* the root through `children` ends at, "none" for null, and "inherited"
\* for a property of Object.prototype, which current.children[part] finds
\* when the last part names one and the directory has no entry of that
\* name: a value that is not null and has no type.
FileSystem_getNodeAtPath(root, pathArray) ==
  LET entries == root.dirs \cup root.files
      missing == { n \in 1..Len(pathArray) :
                     Prefix(pathArray, n) \notin entries }
  IN IF missing = {}
       THEN IF pathArray \in root.dirs THEN "directory" ELSE "file"
     ELSE IF /\ missing = {Len(pathArray)}
             /\ pathArray[Len(pathArray)] \in PrototypeNames
             /\ Prefix(pathArray, Len(pathArray) - 1)
                  \in root.dirs \ root.bare
       THEN "inherited"
     ELSE "none"

\* FileSystem.changeDirectory(path): the error thrown, or the new
\* this.currentDirectory, which is also what it returns.
FileSystem_changeDirectory_MovesFirst(root, cwd, path) ==
  LET resolvedPath == FileSystem_resolvePath(cwd, path)
      node == FileSystem_getNodeAtPath(root, resolvedPath)
  IN [threw |-> node # "directory", cwd |-> resolvedPath,
      message |-> IF node = "none"
                    THEN <<"cd: no such file or directory: ">> \o path
                  ELSE IF node # "directory"
                    THEN <<"cd: not a directory: ">> \o path
                  ELSE <<>>]

FileSystem_changeDirectory(root, cwd, path) ==
  LET resolvedPath == FileSystem_resolvePath(cwd, path)
      node == FileSystem_getNodeAtPath(root, resolvedPath)
  IN IF node = "none"
       THEN [threw |-> TRUE, cwd |-> cwd,
             message |-> <<"cd: no such file or directory: ">> \o path]
     ELSE IF node # "directory"
       THEN [threw |-> TRUE, cwd |-> cwd,
             message |-> <<"cd: not a directory: ">> \o path]
     ELSE [threw |-> FALSE, cwd |-> resolvedPath, message |-> <<>>]

\* FileSystem.createNode(path, type, content), called by makeDirectory with
\* the parent path and the name of the new directory: it writes a line to
\* the console and creates nothing.
FileSystem_createNode(log, path, name) ==
  Append(log, [path |-> path, type |-> "directory", name |-> name])

\* makeDirectory's `else if (!node)`: the node is created when there is none.
MissingNode_Always(node) == TRUE
MissingNode(node) == node = "none"

\* The loop of FileSystem.makeDirectory over the parts, with `walked` for the
\* loop's currentPath: the error thrown, if any, and the console log.
RECURSIVE MakeDirectoryLoop(_, _, _, _)
MakeDirectoryLoop(root, walked, parts, log) ==
  IF parts = <<>> THEN [threw |-> FALSE, message |-> <<>>, log |-> log]
  ELSE IF Head(parts) \in {".", ".."}
    THEN [threw |-> TRUE, log |-> log,
          message |-> <<"mkdir: invalid directory name: ", Head(parts)>>]
  ELSE LET pushed == Append(walked, Head(parts))
           node == FileSystem_getNodeAtPath(root, pushed)
       IN IF node # "none" /\ Len(parts) > 1
            THEN IF node # "directory"
                   THEN [threw |-> TRUE, log |-> log,
                         message |-> <<"mkdir: ">> \o Join(pushed) \o
                                     <<" is not a directory">>]
                   ELSE MakeDirectoryLoop(root, pushed, Tail(parts), log)
          ELSE IF MissingNode(node)
            THEN MakeDirectoryLoop(root, pushed, Tail(parts),
                   FileSystem_createNode(log, walked, Head(parts)))
          ELSE MakeDirectoryLoop(root, pushed, Tail(parts), log)

\* FileSystem.makeDirectory(path).
FileSystem_makeDirectory(root, cwd, log, path) ==
  MakeDirectoryLoop(root, IF StartsWithSlash(path) THEN <<>> ELSE cwd,
                    Segments(path), log)

(***************************************************************************)
(* lib/commands.ts: cd and mkdir on a FileSystem.                          *)
(***************************************************************************)
\* The path expressions a command may be given.
FSPaths ==
  { <<"/">>, <<"/", "tmp">>, <<"/", "home", "/", "user">>,
    <<"/", "home", "/", "user", "/", ".bashrc">>,
    <<"home">>, <<"user">>, <<"Documents">>, <<".bashrc">>, <<"nosuch">>,
    <<"Documents", "/", "new">>, <<".bashrc", "/", "x">>,
    <<"..">>, <<".">>, <<"..", "/", "tmp">>, <<"~">>,
    <<"constructor">>, <<"hasOwnProperty", "/", "x">> }

CdArgs == { <<>>, << <<>> >> } \cup { <<path>> : path \in FSPaths }
MkdirArgs ==
  { <<>>, << <<"nosuch">>, <<"/", "tmp">> >>, << <<"..">>, <<"nosuch">> >> }
    \cup { <<path>> : path \in FSPaths }

\* cd(args, fs)
cd(args) ==
  /\ fsOps < MaxFsOps
  /\ fsOps' = fsOps + 1
  /\ LET path == IF args = <<>> \/ args[1] = <<>> THEN <<"~">> ELSE args[1]
         r == FileSystem_changeDirectory(fsRoot, fsCwd, path)
     IN /\ fsCwd' = r.cwd
        /\ fsOut' =
             <<[command |-> "cd", args |-> args,
                output |-> IF r.threw THEN <<"cd: ">> \o r.message ELSE <<>>,
                success |-> ~r.threw,
                stateChanges |->
                  IF r.threw THEN <<>> ELSE << <<"/">> \o Join(r.cwd) >>]>>
  /\ UNCHANGED <<fsRoot, fsLog, uiVars, pcVars, thVars, rsVars, twVars>>

\* for (const dir of args) fs.makeDirectory(dir): the first throw ends it.
RECURSIVE MakeDirectories(_, _, _, _)
MakeDirectories(root, cwd, log, args) ==
  IF args = <<>> THEN [threw |-> FALSE, message |-> <<>>, log |-> log]
  ELSE LET r == FileSystem_makeDirectory(root, cwd, log, Head(args))
       IN IF r.threw THEN r
          ELSE MakeDirectories(root, cwd, r.log, Tail(args))

\* mkdir(args, fs)
mkdir(args) ==
  /\ fsOps < MaxFsOps
  /\ fsOps' = fsOps + 1
  /\ IF args = <<>>
       THEN /\ fsLog' = fsLog
            /\ fsOut' = <<[command |-> "mkdir", args |-> args,
                           output |-> <<"mkdir: missing operand">>,
                           success |-> FALSE, stateChanges |-> <<>>]>>
       ELSE LET r == MakeDirectories(fsRoot, fsCwd, fsLog, args)
            IN /\ fsLog' = r.log
               /\ fsOut' =
                    <<[command |-> "mkdir", args |-> args,
                       output |-> IF r.threw THEN <<"mkdir: ">> \o r.message
                                  ELSE <<>>,
                       success |-> ~r.threw, stateChanges |-> <<>>]>>
  /\ UNCHANGED <<fsRoot, fsCwd, uiVars, pcVars, thVars, rsVars, twVars>>

\* new FileSystem(root)
NewFileSystem(root) ==
  /\ fsOps < MaxFsOps
  /\ fsOps' = fsOps + 1
  /\ fsRoot' = root
  /\ fsCwd' = <<>>
  /\ fsOut' = <<>>
  /\ UNCHANGED <<fsLog, uiVars, pcVars, thVars, rsVars, twVars>>

(***************************************************************************)
(* utils/terminal.ts: terminalStore, called on its own.                    *)
(***************************************************************************)
MaxAppends == 12

\* The entries given to addHistory: two commands run in the initial session.
HistoryEntries ==
  { TranscriptEntry(command, <<>>,
                    Outcome(FALSE, InitialPath, InitialMirror, <<>>)) :
      command \in { <<"ls">>, <<"pwd">> } }

\* terminalStore.addHistory(entry)
AddHistoryEntry(entry) ==
  /\ Len(appended) < MaxAppends
  /\ transcript' = AddHistory(transcript, entry)
  /\ appended' = Append(appended, entry)
  /\ UNCHANGED <<pcClient, currentPath, mirror, pcPending, pcReply,
                 pcReturned, prePath, preMirror, fsCalls, exchanges, uiVars,
                 fsVars, rsVars, twVars>>

\* terminalStore.clearHistory()
ClearHistory ==
  /\ transcript' = <<>>
  /\ appended' = <<>>
  /\ UNCHANGED <<pcClient, currentPath, mirror, pcPending, pcReply,
                 pcReturned, prePath, preMirror, fsCalls, exchanges, uiVars,
                 fsVars, rsVars, twVars>>

(***************************************************************************)
(* utils/system.ts: resolvePath(currentPath, targetPath), and the two      *)
(* resolvers called on their own.  `cur` stands for currentPath.           *)
(***************************************************************************)
HomePath == <<"home", "user">>

\* The loop over the parts of a relative path: newPath.pop() on '..' (nothing
\* to pop on an empty array), nothing on '.', newPath.push(part) otherwise.
RECURSIVE RelativeParts(_, _)
RelativeParts(newPath, parts) ==
  IF parts = <<>> THEN newPath
  ELSE IF Head(parts) = ".."
    THEN RelativeParts(IF newPath = <<>> THEN <<>>
                       ELSE SubSeq(newPath, 1, Len(newPath) - 1),
                       Tail(parts))
  ELSE IF Head(parts) # "."
    THEN RelativeParts(Append(newPath, Head(parts)), Tail(parts))
  ELSE RelativeParts(newPath, Tail(parts))

\* targetPath.startsWith('~/')
StartsWithTildeSlash(targetPath) ==
  Len(targetPath) >= 2 /\ targetPath[1] = "~" /\ targetPath[2] = "/"

resolvePath_WalksFromRoot(cur, targetPath) ==
  IF targetPath = <<"..">>
    THEN IF cur = <<>> THEN <<>> ELSE SubSeq(cur, 1, Len(cur) - 1)
  ELSE RelativeParts(<<>>, Segments(targetPath))

resolvePath_NoTildeRule(cur, targetPath) ==
  FileSystem_resolvePath(cur, targetPath)

resolvePath(cur, targetPath) ==
  IF StartsWithSlash(targetPath) THEN Segments(targetPath)
  ELSE IF targetPath = <<".">> \/ targetPath = <<>> THEN cur
  ELSE IF targetPath = <<"..">>
    THEN IF cur = <<>> THEN <<>> ELSE SubSeq(cur, 1, Len(cur) - 1)
  ELSE IF targetPath = <<"~">> THEN HomePath
  ELSE IF StartsWithTildeSlash(targetPath)
    THEN HomePath \o Segments(After(targetPath, 2))
  ELSE RelativeParts(cur, Segments(targetPath))

\* The current paths the resolvers are given ...
RSPaths ==
  { <<>>, <<"tmp">>, <<"home">>, <<"home", "user">>,
    <<"home", "user", "Documents">>, <<"~">>, <<"home", "~">>,
    <<"tmp", "..">>, <<"tmp", ".">> }

\* ... and the path expressions.
RSExprs ==
  { <<>>, <<".">>, <<"..">>, <<"~">>,
    <<"~", "/", "Documents">>, <<"~", "/", "..">>, <<"~", "/">>,
    <<"/">>, <<"/", "tmp">>, <<"/", "tmp", "/", "..">>,
    <<"/", ".", "/", "tmp">>, <<"/", "/", "tmp", "/">>,
    <<"Documents">>, <<"Documents", "/", "new">>, <<".", "/", "Documents">>,
    <<"..", "/", "tmp">>, <<"..", "/", "..">>, <<"a", "/", ".", "/", "b">>,
    <<"a", "/", "..", "/", "b">>, <<"tmp", "/">>, <<"user">>,
    <<"tmp">>, <<"home">>,
    <<"~", "/", ".", "/", "x">> }

\* Both resolvers are called with the current path cur and the expression
\* expr.
ResolveBoth(cur, expr) ==
  /\ rsCur' = cur
  /\ rsExpr' = expr
  /\ rsOut' = resolvePath(cur, expr)
  /\ rsLibOut' = FileSystem_resolvePath(cur, expr)
  /\ UNCHANGED <<uiVars, pcVars, fsVars, thVars, twVars>>

(***************************************************************************)
(* The specifications.                                                     *)
(***************************************************************************)
Init ==
  /\ apiKey = <<>>
  /\ isProcessing = FALSE
  /\ currentDirectory = HomeDirectory
  /\ history = <<>>
  /\ client = <<>>
  /\ pending = <<>>
  /\ rejected = <<>>
  /\ exitCode = <<>>
  /\ submissions = 0
  /\ dropped = 0
  /\ confirmed = FALSE
  /\ pcClient = FALSE
  /\ transcript = <<>>
  /\ currentPath = InitialPath
  /\ mirror = InitialMirror
  /\ pcPending = <<>>
  /\ pcReply = <<>>
  /\ pcReturned = <<>>
  /\ prePath = InitialPath
  /\ preMirror = InitialMirror
  /\ fsCalls = <<>>
  /\ exchanges = 0
  /\ fsRoot = ChildrenTree
  /\ fsCwd = <<>>
  /\ fsLog = <<>>
  /\ fsOut = <<>>
  /\ fsOps = 0
  /\ appended = <<>>
  /\ rsCur = <<>>
  /\ rsExpr = <<>>
  /\ rsOut = <<>>
  /\ rsLibOut = <<>>
  /\ runA = FreshRun
  /\ runB = FreshRun

Enter == \E input \in Inputs : PressEnter(input)

Next == Enter \/ OracleResolves \/ OracleRejects

\* The terminal window, the store and the oracle call of utils/llm.ts.
Spec == Init /\ [][Next]_vars

\* The same, with every outstanding oracle call eventually settling.
LiveSpec == Spec /\ WF_vars(OracleResolves \/ OracleRejects)

PCInitializesClient == \E key \in {<<>>, LongKey} : PCInitializeClient(key)
PCSubmits == \E command \in PCCommands : PCSubmit(command)
PCResolves ==
  \E i \in 1..Len(pcPending) : \E text \in PCReplies : PCResolve(i, text)
PCEmptyResponses == \E i \in 1..Len(pcPending) : PCEmptyResponse(i)
PCRejects ==
  \E i \in 1..Len(pcPending) : \E message \in PCFailures :
    PCReject(i, message)

PCNext ==
  \/ PCInitializesClient
  \/ PCSubmits
  \/ PCResolves
  \/ PCEmptyResponses
  \/ PCRejects

\* processCommand of utils/terminal.ts and its session context.
PCSpec == Init /\ [][PCNext]_vars

CallsExecuteCommand ==
  \E command \in StoreCommands : CallExecuteCommand(command)

TwoRunsNext == TwoRunsEnter \/ TwoRunsResolve \/ TwoRunsReject

\* Two runs of the terminal window that are given the same texts and the
\* same answers, except for the credential values typed.
TwoRunsSpec == Init /\ [][TwoRunsNext]_vars

StoreNext ==
  \/ CallsExecuteCommand
  \/ ExecuteCommandCatch
  \/ CallInitializeClient
  \/ CallSetApiKey
  \/ CallSetProcessing
  \/ CallAddToHistory
  \/ CallResetTerminal
  \/ OracleResolves
  \/ OracleRejects

\* The store's executeCommand called directly, before and after the client
\* of utils/llm.ts is initialized.
StoreSpec == Init /\ [][StoreNext]_vars

Resolves == \E cur \in RSPaths : \E expr \in RSExprs : ResolveBoth(cur, expr)

\* resolvePath of utils/system.ts and FileSystem.resolvePath on every current
\* path of RSPaths and every expression of RSExprs.
RSSpec == Init /\ [][Resolves]_vars

AddsHistory == \E entry \in HistoryEntries : AddHistoryEntry(entry)

THNext == AddsHistory \/ ClearHistory

\* terminalStore of utils/terminal.ts under any sequence of its calls.
THSpec == Init /\ [][THNext]_vars

NewFileSystems == \E root \in FSRoots : NewFileSystem(root)
Cds == \E args \in CdArgs : cd(args)
Mkdirs == \E args \in MkdirArgs : mkdir(args)

FSNext == NewFileSystems \/ Cds \/ Mkdirs

\* The class FileSystem of lib/filesystem.ts under the commands of
\* lib/commands.ts.
FSSpec == Init /\ [][FSNext]_vars

(***************************************************************************)
(* Claims about the terminal window and the store (Spec, LiveSpec).        *)
(***************************************************************************)
\* C1: in every reachable state at most one oracle command exchange is
\* outstanding; two executeCommand exchanges never overlap.
C1_AtMostOneExchangeInFlight == Len(pending) <= 1

\* An exchange is outstanding after an earlier one (the probe) has completed.
C1_Witness ==
  /\ Len(pending) = 1
  /\ pending[1].command # ProbeCommand
  /\ \E i \in 1..Len(history) : history[i].command = ProbeCommand

\* C2: a command submitted while isProcessing is true is rejected at once:
\* the step of that Enter key press issues no oracle call, adds no history
\* record, changes no directory and leaves nothing behind to run later.
C2_SubmissionWhileProcessingRejected ==
  [][(isProcessing /\ submissions' # submissions)
       => /\ pending' = pending
          /\ history' = history
          /\ currentDirectory' = currentDirectory
          /\ isProcessing' = isProcessing]_vars

\* Enter was pressed while an exchange was outstanding.
C2_Witness == isProcessing /\ dropped > 0 /\ Len(pending) = 1

\* C3: every exchange that enters Processing eventually returns to Ready
\* with isProcessing cleared and no call outstanding, whether the oracle
\* call succeeds, its reply parses partially, or it fails, provided the call
\* eventually resolves or rejects.
C3_ProcessingEventuallyReady ==
  [](isProcessing => <>(~isProcessing /\ pending = <<>>))

\* A failed exchange and a partially parsed one are over, the flag cleared.
C3_Witness ==
  /\ ~isProcessing
  /\ pending = <<>>
  /\ \E i \in 1..Len(history) :
       history[i].output = <<"Error: ", "Connection error.">>
  /\ \E i \in 1..Len(history) : history[i].output = <<"No output">>

\* C4: the credential becomes present only after an oracle call made with
\* the candidate has confirmed it is usable, and a candidate of sufficient
\* length whose probe the oracle has rejected leaves the credential absent.
C4_CredentialOnlyAfterOracleConfirms ==
  /\ apiKey # <<>> => confirmed
  /\ (/\ pending = <<>>
      /\ history # <<>>
      /\ history[Len(history)].command = ProbeCommand
      /\ history[Len(history)].output \in
           { <<"Error: ">> \o message : message \in LLMFailures })
       => apiKey = <<>>

(***************************************************************************)
(* Claims about processCommand (PCSpec).                                   *)
(***************************************************************************)
\* The number of ---name--- markers in s.
RECURSIVE CountMarker(_, _)
CountMarker(s, name) ==
  LET i == FindMarker(s, name)
  IN IF i = 0 THEN 0 ELSE 1 + CountMarker(After(s, i + 2), name)

\* The action batch processCommand reads from the reply text.
BatchOf(text) ==
  LET parts == Split(text, "---")
  IN IF TooFewParts(parts) \/ ActionsJson(parts) = <<>>
       THEN NotAnObject("none")
       ELSE JSONParseText(ActionsJson(parts))

\* The batch of the reply has a createFiles entry without a path or with a
\* type other than file and directory.
HasInvalidEntry(text) ==
  LET a == BatchOf(text)
  IN /\ a.kind = "object"
     /\ ~ShapeInvalid(a)
     /\ \E i \in 1..Len(a.createFiles.items) :
          EntryInvalid(a.createFiles.items[i])

\* C5: if a createFiles entry of the batch lacks a path or a valid type, no
\* action of the batch is applied, wherever the entry stands in the batch:
\* no mutating call is made on the file system, and the current path and the
\* mirror are those from before the exchange.
C5_InvalidEntryAppliesNothing ==
  \A text \in PCReplies :
    (pcReply = <<text>> /\ HasInvalidEntry(text))
      => (fsCalls = <<>> /\ currentPath = prePath /\ mirror = preMirror)

\* C6: when the batch is rejected by shape validation, the exchange still
\* returns the output text parsed from the output block.
C6_InvalidEntryStillReturnsOutput ==
  \A text \in PCReplies :
    (pcReply = <<text>> /\ HasInvalidEntry(text))
      => pcReturned = <<TerminalOutput(Split(text, "---"))>>

\* C7: for a canonical reply whose actions object has newPath P, after the
\* exchange the current path is the sequence of non-empty '/'-separated
\* segments of P.  (Stated for the P that name a directory of the mirror,
\* which is the least the claim asks.)
C7_CanonicalNewPathApplied ==
  \A body \in {EmptyBody, HelloBody} : \A json \in {JCdTmp, JCdTestdir} :
    (/\ pcReply = <<CanonicalReply(body, json)>>
     /\ Segments(JSONParse(json).newPath.text) \in preMirror.dirs)
      => currentPath = Segments(JSONParse(json).newPath.text)

\* C8: with current path /home/user, a canonical reply with empty output and
\* createFiles [{path: testdir, type: directory}] leaves a directory testdir
\* that is a child of /home/user, and the current path unchanged.
C8_CanonicalCreateRelativeToCurrent ==
  (/\ pcReply = <<CanonicalReply(EmptyBody, JMkdir)>>
   /\ prePath = <<"home", "user">>)
    => /\ <<"home", "user", "testdir">> \in mirror.dirs
       /\ currentPath = prePath

\* The reply lacks the output block or the actions block (a block is opened
\* and closed by its marker), or splits into fewer than 5 pieces.
LacksBlock(text) ==
  \/ CountMarker(text, "output") < 2
  \/ CountMarker(text, "actions") < 2
  \/ Len(Split(text, "---")) < 5

\* C9: a reply that lacks either delimited block, or splits into fewer than
\* 5 segments, yields the generic invalid-format message and applies no
\* action.
C9_MissingBlockIsFormatError ==
  \A text \in PCReplies :
    (pcReply = <<text>> /\ LacksBlock(text))
      => /\ pcReturned = <<InvalidOutputFormat>>
         /\ currentPath = prePath
         /\ mirror = preMirror

\* C10: for every reply in the reply grammar, with any free text as output
\* body, the output returned is that whole text between the two ---output---
\* markers, trimmed.
C10_OutputIsWholeBody ==
  \A body \in {EmptyBody, HelloBody, PermBody} :
    \A json \in {JEmpty, JMkdir, JCdTmp} :
      pcReply = <<CanonicalReply(body, json)>>
        => pcReturned = <<Trim(body)>>

(***************************************************************************)
(* Claims about the text of a reply and the records of an exchange.        *)
(***************************************************************************)
\* C11: when the reply has no output block, the output of the exchange is the
\* empty string: in the step where a call settles with such a reply, the
\* record added to the history has the empty output, never a placeholder.
C11_NoOutputBlockGivesEmptyOutput ==
  [][\A content \in LLMReplies :
       (/\ FindMarker(content, "output") = 0
        /\ \E i \in 1..Len(pending) : Settle(i, ParseLLMReply(content)))
         => history'[Len(history')].output = <<>>]_vars

\* The text of the block opened by the first ---name--- marker, up to the
\* next marker of a block (or the end of the reply), trimmed.
BlockAfter(text, name) ==
  LET i == FindMarker(text, name)
      rest == After(text, i + 2)
      o == FindMarker(rest, "output")
      a == FindMarker(rest, "actions")
      e == IF o = 0 THEN a ELSE IF a = 0 THEN o ELSE IF o < a THEN o ELSE a
  IN IF i = 0 THEN <<>>
     ELSE IF e = 0 THEN Trim(rest) ELSE Trim(SubSeq(rest, 1, e - 1))

\* The actions block of the reply is non-empty and is not well-formed JSON:
\* the block between the ---actions--- markers, or the piece processCommand
\* reads as the actions block.
MalformedActions(text) ==
  \/ /\ BlockAfter(text, "actions") # <<>>
     /\ JSONParseText(BlockAfter(text, "actions")).kind = "syntaxError"
  \/ BatchOf(text).kind = "syntaxError"

\* C12: when the actions block is non-empty and not well-formed JSON, the
\* exchange returns the parsed output text, makes no call on the file
\* system, and leaves the current path and the mirror as before the call.
C12_MalformedJsonKeepsOutput ==
  \A text \in PCReplies :
    (pcReply = <<text>> /\ MalformedActions(text))
      => /\ pcReturned = <<TerminalOutput(Split(text, "---"))>>
         /\ fsCalls = <<>>
         /\ currentPath = prePath
         /\ mirror = preMirror

C12_Witness ==
  /\ pcReply = <<UnclosedReply(HelloBody, JMalformed)>>
  /\ MalformedActions(pcReply[1])
  /\ pcReturned = <<HelloBody>>
  /\ transcript # <<>>

\* The place of a call on the file system in the order of a batch.
OpRank(op) ==
  CASE op = "changeDirectory" -> 1
    [] op \in {"createDirectory", "createFile"} -> 2
    [] op = "deleteNode" -> 3

\* C13: within one batch the directory change is applied before every
\* creation and every creation before every deletion: the calls made on the
\* file system during an exchange are in that order.
C13_ChangeThenCreateThenDelete ==
  \A i \in 1..Len(fsCalls) : \A j \in 1..Len(fsCalls) :
    i < j => OpRank(fsCalls[i].op) <= OpRank(fsCalls[j].op)

C13_Witness ==
  /\ pcReply = <<UnclosedReply(HelloBody, JAll)>>
  /\ pcReturned = <<HelloBody>>
  /\ { fsCalls[i].op : i \in 1..Len(fsCalls) } =
       {"changeDirectory", "createDirectory", "createFile", "deleteNode"}

\* C14: if a mutation of a batch fails, that action is skipped and the rest
\* of the batch is still applied, and the exchange returns the parsed output:
\* for deleteFiles ["nosuch", "tmp"], where nosuch does not exist, both
\* deletions are attempted, tmp is gone afterwards, and the output is
\* returned.
C14_FailedActionSkippedRestApplied ==
  (/\ pcReply = <<UnclosedReply(HelloBody, JRmMissing)>>
   /\ <<"nosuch">> \notin preMirror.dirs \cup preMirror.files
   /\ <<"tmp">> \in preMirror.dirs)
    => /\ Len(fsCalls) = Len(JSONParse(JRmMissing).deleteFiles.items)
       /\ <<"tmp">> \notin mirror.dirs
       /\ pcReturned = <<HelloBody>>

(***************************************************************************)
(* Claims about the class FileSystem and its commands (FSSpec).            *)
(***************************************************************************)
\* The path array makeDirectory walks for the expression path.
MakeDirectoryTarget(cwd, path) ==
  (IF StartsWithSlash(path) THEN <<>> ELSE cwd) \o Segments(path)

\* C15: creating a directory that already exists as a directory is a no-op:
\* in a step mkdir <path> whose target is a directory of the tree, the
\* command succeeds, the tree is left as it is and no node is created for
\* it (createNode is not called).
C15_ExistingDirectoryCreateIsNoOp ==
  [][\A path \in FSPaths :
       (/\ mkdir(<<path>>)
        /\ FileSystem_getNodeAtPath(fsRoot, MakeDirectoryTarget(fsCwd, path))
             = "directory")
         => /\ fsRoot' = fsRoot
            /\ fsLog' = fsLog
            /\ fsOut'[1].success]_vars

C15_Witness ==
  /\ fsOut # <<>>
  /\ fsOut[1].command = "mkdir"
  /\ fsOut[1].args = << <<"Documents">> >>
  /\ fsCwd = <<"home", "user">>
  /\ FileSystem_getNodeAtPath(fsRoot, <<"home", "user", "Documents">>)
       = "directory"
  /\ fsOut[1].success
  /\ fsLog = <<>>

(***************************************************************************)
(* Claims about the transcript and the history.                            *)
(***************************************************************************)
\* C16: every completed exchange appends exactly one entry to the
\* transcript: in the step in which an outstanding call of processCommand
\* ends (a reply, an empty response or a rejection), the transcript grows by
\* one entry (the window is not reached within MaxExchanges exchanges).
C16_EveryExchangeAppendsOneEntry ==
  [][Len(pcPending') < Len(pcPending)
       => Len(transcript') = Len(transcript) + 1]_vars

\* C17: after any sequence of n appends the transcript is no longer than the
\* window and holds exactly the min(n, window) most recently appended
\* entries, in the order in which they were appended.
C17_TranscriptIsLastWindow ==
  LET n == Len(appended)
      k == IF n < HistoryWindow THEN n ELSE HistoryWindow
  IN /\ Len(transcript) <= HistoryWindow
     /\ transcript = SubSeq(appended, n - k + 1, n)

C17_Witness ==
  /\ Len(appended) = HistoryWindow + 2
  /\ Len(transcript) = HistoryWindow
  /\ appended[1] # appended[3]
  /\ transcript[1] = appended[3]

\* C18: an exchange that ends in a format error or in a transport error
\* produces an error output for that command and leaves the session as it
\* was: a reply of fewer than 5 pieces returns the invalid-format message, a
\* rejected call returns its error message and records it, and in both
\* cases no call is made on the file system and the current path and the
\* mirror are those from before the exchange.
C18_ErrorsLeaveSessionUnchanged ==
  /\ \A text \in PCReplies :
       (pcReply = <<text>> /\ Len(Split(text, "---")) < MinParts)
         => /\ pcReturned = <<InvalidOutputFormat>>
            /\ fsCalls = <<>>
            /\ currentPath = prePath
            /\ mirror = preMirror
  /\ \A message \in PCFailures :
       (pcReply = <<>> /\ pcReturned = << <<"Error: ">> \o message >>)
         => /\ transcript # <<>>
            /\ transcript[Len(transcript)].output = <<"Error: ">> \o message
            /\ transcript[Len(transcript)].currentPath = prePath
            /\ fsCalls = <<>>
            /\ currentPath = prePath
            /\ mirror = preMirror

\* A rejected call, then a reply without any marker.
C18_Witness ==
  /\ pcReply = <<PlainReply>>
  /\ pcReturned = <<InvalidOutputFormat>>
  /\ Len(transcript) = 1
  /\ transcript[1].output = <<"Error: ", "Connection error.">>
  /\ currentPath = InitialPath
  /\ mirror = InitialMirror

\* C19: while an oracle call is outstanding, the current directory and the
\* history are not modified: in every state with an outstanding call they
\* are the directory and the history executeCommand read when it issued the
\* call, so they change no earlier than in the step in which it settles.
C19_NoChangeWhileOutstanding ==
  \A i \in 1..Len(pending) :
    /\ pending[i].history = history
    /\ pending[i].directory = currentDirectory

\* A command is outstanding, after a key press on the disabled input.
C19_Witness ==
  /\ Len(pending) = 1
  /\ pending[1].command = LsCommand
  /\ dropped > 0
  /\ history # <<>>
  /\ pending[1].history = history

\* C20: every completed command exchange adds exactly one record to the
\* display history, whose command is the submitted text and whose directory
\* is the current directory at the moment of the submission, which is the
\* directory before the reply is applied.
C20_OneRecordPerExchange ==
  [][Len(pending') < Len(pending)
       => /\ Len(history') = Len(history) + 1
          /\ SubSeq(history', 1, Len(history)) = history
          /\ history'[Len(history')].command = pending[1].command
          /\ history'[Len(history')].directory = pending[1].directory
          /\ history'[Len(history')].directory = currentDirectory]_vars

\* cd tmp was answered with the directory /tmp: the record keeps /home/user.
C20_Witness ==
  /\ pending = <<>>
  /\ history # <<>>
  /\ history[Len(history)].command = CdCommand
  /\ history[Len(history)].directory = HomeDirectory
  /\ currentDirectory = <<"/", "tmp">>

(***************************************************************************)
(* Claims about the credential (Spec).                                     *)
(***************************************************************************)
\* C21: a credential candidate shorter than 10 characters after trimming is
\* rejected locally: in the step in which handleApiKeySubmission runs with
\* such a candidate, the credential-format error is added to the history
\* under the placeholder command, the credential stays absent, no oracle
\* call is made and isProcessing is false afterwards.
C21_ShortCredentialRejectedLocally ==
  [][\A input \in Inputs :
       (/\ PressEnter(input)
        /\ ~isProcessing
        /\ apiKey = <<>>
        /\ Len(Trim(input)) < MinKeyLength)
         => /\ apiKey' = <<>>
            /\ history' = Append(history,
                            [id |-> Len(history) + 1,
                             command |-> KeyPlaceholder,
                             output |-> KeyFormatError,
                             directory |-> currentDirectory])
            /\ pending' = pending
            /\ client' = client
            /\ ~isProcessing']_vars

\* C22: no history record contains the text submitted as a credential:
\* every record of a credential entry carries the placeholder command and
\* one of the fixed outputs, and as long as the oracle has not confirmed the
\* credential (the session still awaits one, and what is typed is a
\* candidate) no record carries the credential text as its command or its
\* output.
C22_NoRecordHoldsCredentialText ==
  \A i \in 1..Len(history) :
    /\ history[i].command = KeyPlaceholder
         => history[i].output \in {KeyFormatError, KeyAccepted}
    /\ (apiKey # <<>> /\ ~confirmed)
         => /\ history[i].command # apiKey[1]
            /\ history[i].output # apiKey[1]

\* The run as the window's variables hold it, its requests left out.
WindowRun ==
  [apiKey |-> apiKey, isProcessing |-> isProcessing,
   currentDirectory |-> currentDirectory, history |-> history,
   client |-> client, pending |-> pending, rejected |-> rejected,
   exitCode |-> exitCode, submissions |-> submissions, dropped |-> dropped,
   confirmed |-> confirmed, sent |-> <<>>]

\* The handlers written as functions of the run do what the window's
\* actions do: every step of the window is the step of the run.
RunsFollowWindow ==
  [][/\ \A input \in Inputs :
          PressEnter(input)
            => WindowRun' = [RunPressEnter(WindowRun, input)
                               EXCEPT !.sent = <<>>]
     /\ \A content \in LLMReplies :
          (/\ pending # <<>>
           /\ Settle(1, ParseLLMReply(content))
           /\ confirmed')
            => WindowRun' = RunAnswer(WindowRun, ParseLLMReply(content),
                                      TRUE)
     /\ \A message \in LLMFailures :
          (/\ pending # <<>>
           /\ Settle(1, LLMErrorResult(message))
           /\ confirmed' = confirmed)
            => WindowRun' = RunAnswer(WindowRun, LLMErrorResult(message),
                                      FALSE)]_vars

\* The requests the run s has made in the step to the run t.
NewlySent(s, t) == SubSeq(t.sent, Len(s.sent) + 1, Len(t.sent))

\* C23: the text of every oracle request is independent of the credential:
\* two runs that differ only in the credential values submitted, with the
\* same later inputs and the same oracle replies, have made the same
\* sequence of request texts (user message, and what the system prompt
\* interpolates) at every moment; and a text submitted while the
\* credential is absent is not the command of any request.
C23_RequestTextIndependentOfCredential ==
  [][/\ runA'.sent = runB'.sent
     /\ \A a \in Typed : \A b \in Typed :
          (runA' = RunPressEnter(runA, a) /\ runB' = RunPressEnter(runB, b))
            => /\ runA.apiKey = <<>>
                    => \A k \in 1..Len(NewlySent(runA, runA')) :
                         NewlySent(runA, runA')[k].command # a
               /\ runB.apiKey = <<>>
                    => \A k \in 1..Len(NewlySent(runB, runB')) :
                         NewlySent(runB, runB')[k].command # b]_vars

(***************************************************************************)
(* Claims about the current path and the tree.                             *)
(***************************************************************************)
\* C24: in every state reached after a command has completed successfully,
\* the current path resolves to an existing directory of the mirror,
\* whatever directory the reply names.  The store keeps no tree of its own
\* and no command creates a node locally: the mirror is the default tree.
C24_CurrentPathIsExistingDirectory ==
  confirmed
    => FileSystem_getNodeAtPath(ChildrenTree, Segments(currentDirectory))
         = "directory"

\* C25: at session start (a FileSystem has been constructed and no command
\* has run) the current path is the home directory /home/user in every
\* component that holds one, the store, the session of processCommand and
\* the FileSystem, and the FileSystem's node lookup finds a directory
\* there.
C25_SessionStartsAtHome ==
  (fsOut = <<>> /\ history = <<>> /\ exchanges = 0)
    => /\ Segments(currentDirectory) = <<"home", "user">>
       /\ currentPath = <<"home", "user">>
       /\ fsCwd = <<"home", "user">>
       /\ FileSystem_getNodeAtPath(fsRoot, <<"home", "user">>) = "directory"

(***************************************************************************)
(* Claims about the path resolvers.                                        *)
(***************************************************************************)
\* The names between the slashes of an expression, the empty ones dropped.
NamesOf(expr) == SelectSeq(expr, LAMBDA t : t # "/")

\* The stack after the names from the i-th on: '.' leaves it, '..' pops it
\* when it is not empty, any other name is pushed.
RECURSIVE WalkStack(_, _, _)
WalkStack(stack, names, i) ==
  IF i > Len(names) THEN stack
  ELSE WalkStack(CASE names[i] = "." -> stack
                   [] names[i] = ".." ->
                        [k \in 1..(IF Len(stack) > 0 THEN Len(stack) - 1
                                   ELSE 0) |-> stack[k]]
                   [] OTHER -> stack \o <<names[i]>>,
                 names, i + 1)

\* The first rule of the table that applies to an expression.
RuleOf(expr) ==
  CASE Len(expr) > 0 /\ expr[1] = "/" -> "absolute"
    [] expr \in {<<>>, <<".">>} -> "same"
    [] expr = <<"..">> -> "parent"
    [] expr = <<"~">> -> "home"
    [] Len(expr) > 1 /\ expr[1] = "~" /\ expr[2] = "/" -> "under home"
    [] OTHER -> "walk"

RuleTable(cur, expr) ==
  CASE RuleOf(expr) = "absolute" -> NamesOf(expr)
    [] RuleOf(expr) = "same" -> cur
    [] RuleOf(expr) = "parent" ->
         [k \in 1..(IF cur = <<>> THEN 0 ELSE Len(cur) - 1) |-> cur[k]]
    [] RuleOf(expr) = "home" -> <<"home", "user">>
    [] RuleOf(expr) = "under home" ->
         <<"home", "user">> \o NamesOf(SubSeq(expr, 3, Len(expr)))
    [] RuleOf(expr) = "walk" -> WalkStack(cur, NamesOf(expr), 1)

\* C26: for every current path and expression, resolvePath of
\* utils/system.ts returns what the rule table gives, the rules taken in
\* priority order (leading '/', empty or '.', '..', '~', '~/rest', and the
\* walk that pushes every name but '.' and '..'); the current path it was
\* given is the one the caller passed, and the result depends on nothing
\* but the two arguments.
C26_ResolveFollowsRuleTable ==
  /\ rsCur \in RSPaths
  /\ rsExpr \in RSExprs
  /\ rsOut = RuleTable(rsCur, rsExpr)

C26_Witness ==
  \/ /\ rsCur = <<"home", "user">>
     /\ rsExpr = <<"..", "/", "tmp">>
     /\ rsOut = <<"home", "tmp">>
  \/ /\ rsCur = <<"tmp">>
     /\ rsExpr = <<"~", "/", "Documents">>
     /\ rsOut = <<"home", "user", "Documents">>

\* A step that resolves the last segment of the path p from the result of
\* resolving '..' from p: the state before holds the call on (p, '..'),
\* the state after the call on (that result, last segment of p).
SecondLegOfRoundTrip ==
  /\ rsExpr = <<"..">>
  /\ rsCur # <<>>
  /\ rsCur' = rsOut
  /\ rsCur' = rsLibOut
  /\ rsExpr' = <<rsCur[Len(rsCur)]>>

\* C27: for every non-root path p, resolving '..' from p and then the last
\* segment of p from the result returns p, and resolving '..' from the root
\* returns the root; in resolvePath of utils/system.ts and in
\* FileSystem.resolvePath.
C27_ParentThenLastSegmentReturnsPath ==
  [][/\ (rsExpr' = <<"..">> /\ rsCur' = <<>>)
          => rsOut' = <<>> /\ rsLibOut' = <<>>
     /\ SecondLegOfRoundTrip => rsOut' = rsCur /\ rsLibOut' = rsCur]_vars

\* C27 as it holds: the round trip returns p, in resolvePath of
\* utils/system.ts and in FileSystem.resolvePath, for every non-root path p
\* whose last segment is none of '~', '.' and '..', the names that are
\* expressions with a rule of their own.  For a last segment '~' it returns
\* p in FileSystem.resolvePath and the home path in utils/system.ts; for
\* '.' it returns the parent of p in both, and for '..' the parent of the
\* parent in both.  '..' from the root returns the root in both.
C27_RoundTripOfPlainLastSegment ==
  [][/\ (rsExpr' = <<"..">> /\ rsCur' = <<>>)
          => rsOut' = <<>> /\ rsLibOut' = <<>>
     /\ SecondLegOfRoundTrip
          => LET last == rsCur[Len(rsCur)]
                 parent == Prefix(rsCur, Len(rsCur) - 1)
                 grandparent ==
                   IF parent = <<>> THEN <<>>
                   ELSE Prefix(parent, Len(parent) - 1)
             IN /\ last \notin {"~", ".", ".."}
                     => rsOut' = rsCur /\ rsLibOut' = rsCur
                /\ last = "~" => rsOut' = HomePath /\ rsLibOut' = rsCur
                /\ last = "." => rsOut' = parent /\ rsLibOut' = parent
                /\ last = ".."
                     => rsOut' = grandparent /\ rsLibOut' = grandparent]_vars

C27_Witness ==
  /\ rsCur = <<"home", "user">>
  /\ rsExpr = <<"Documents">>
  /\ rsOut = <<"home", "user", "Documents">>
  /\ rsLibOut = <<"home", "user", "Documents">>

\* A path with no empty segment, no '.' segment and no '..' segment.
Normalized(path) ==
  \A i \in 1..Len(path) : path[i] \notin {"", ".", ".."}

\* C28: from a normalized current path, the path each resolver returns is
\* normalized, whatever the expression, absolute or relative.
C28_ResolvedPathIsNormalized ==
  Normalized(rsCur) => Normalized(rsOut) /\ Normalized(rsLibOut)

(***************************************************************************)
(* Claims about the cd command.                                            *)
(***************************************************************************)
\* The last command was cd with no argument, an empty one or '~'.
CdHome ==
  /\ fsOut # <<>>
  /\ fsOut[1].command = "cd"
  /\ \/ fsOut[1].args = <<>>
     \/ fsOut[1].args[1] \in {<<>>, <<"~">>}

\* C29: '~' resolves to the home path wherever it is resolved: after cd
\* with no argument (the default is '~') or with '~', on a tree that has
\* the directory /home/user, the command has succeeded and the current
\* directory is [home, user].
C29_CdTildeGoesHome ==
  (CdHome /\ FileSystem_getNodeAtPath(fsRoot, <<"home", "user">>)
               = "directory")
    => /\ fsOut[1].success
       /\ fsCwd = <<"home", "user">>
       /\ fsOut[1].stateChanges = << <<"/", "home", "/", "user">> >>

\* C30: the output of a failed cd with an argument is exactly
\* 'cd: no such file or directory: <path>' when the target does not exist
\* and exactly 'cd: not a directory: <path>' when it exists and is not a
\* directory, <path> being the argument as given.
C30_FailedCdOutputIsExact ==
  (/\ fsOut # <<>>
   /\ fsOut[1].command = "cd"
   /\ ~fsOut[1].success
   /\ fsOut[1].args # <<>>
   /\ fsOut[1].args[1] # <<>>)
    => LET path == fsOut[1].args[1]
           node == FileSystem_getNodeAtPath(
                     fsRoot, FileSystem_resolvePath(fsCwd, path))
       IN /\ node = "none"
               => fsOut[1].output
                    = <<"cd: no such file or directory: ">> \o path
          /\ node = "file"
               => fsOut[1].output = <<"cd: not a directory: ">> \o path

(***************************************************************************)
(* Claims about mkdir.                                                     *)
(***************************************************************************)
\* C31: mkdir -p semantics: after a mkdir that returned without error,
\* every prefix of every target path, the full path included, is a
\* directory of the tree: the missing ancestors have been created.
C31_MkdirCreatesEveryPrefix ==
  (fsOut # <<>> /\ fsOut[1].command = "mkdir" /\ fsOut[1].success)
    => \A k \in 1..Len(fsOut[1].args) :
         LET target == MakeDirectoryTarget(fsCwd, fsOut[1].args[k])
         IN \A n \in 1..Len(target) :
              FileSystem_getNodeAtPath(fsRoot, Prefix(target, n))
                = "directory"

\* C32: a mkdir of one path that already exists in the tree fails with
\* 'mkdir: <path>: File exists' and leaves the tree as it was.
C32_MkdirOfExistingPathFails ==
  [][\A path \in FSPaths :
       (/\ mkdir(<<path>>)
        /\ FileSystem_getNodeAtPath(fsRoot, MakeDirectoryTarget(fsCwd, path))
             # "none")
         => /\ fsRoot' = fsRoot
            /\ ~fsOut'[1].success
            /\ fsOut'[1].output
                 = <<"mkdir: ">> \o path \o <<": File exists">>]_vars

(***************************************************************************)
(* Claims about the effect of cd.                                          *)
(***************************************************************************)
\* '/' followed by the segments, a '/' between two of them.
RECURSIVE SlashJoined(_)
SlashJoined(segments) ==
  IF Len(segments) <= 1 THEN <<"/">> \o segments
  ELSE SlashJoined(SubSeq(segments, 1, Len(segments) - 1))
         \o <<"/", segments[Len(segments)]>>

\* C33: a cd whose resolved target is missing or is not a directory leaves
\* the current directory as it was and reports success = false with no
\* currentDirectory state change; a cd whose target is a directory makes
\* it the current directory and reports it as '/' followed by the segments
\* joined with '/'.
C33_CdMovesOnlyToDirectories ==
  [][\A args \in CdArgs :
       cd(args) =>
         LET path == IF args = <<>> \/ args[1] = <<>> THEN <<"~">>
                     ELSE args[1]
             target == FileSystem_resolvePath(fsCwd, path)
         IN IF FileSystem_getNodeAtPath(fsRoot, target) = "directory"
              THEN /\ fsCwd' = target
                   /\ fsOut'[1].success
                   /\ fsOut'[1].stateChanges = <<SlashJoined(target)>>
              ELSE /\ fsCwd' = fsCwd
                   /\ ~fsOut'[1].success
                   /\ fsOut'[1].stateChanges = <<>>]_vars

\* A cd to a missing name from /home/user has failed and left the current
\* directory there.
C33_Witness ==
  /\ fsCwd = <<"home", "user">>
  /\ fsOut # <<>>
  /\ fsOut[1].command = "cd"
  /\ fsOut[1].args = << <<"nosuch">> >>
  /\ ~fsOut[1].success
  /\ fsOut[1].stateChanges = <<>>

(***************************************************************************)
(* Further claims about the store's exchange.                              *)
(***************************************************************************)
\* C34: whenever an oracle call is outstanding, the probe sent right after
\* a credential is accepted included, isProcessing is true: the input is
\* disabled for the whole duration of the call.
C34_ProcessingWhileCallOutstanding == pending # <<>> => isProcessing

\* The probe is outstanding.
C34_Witness ==
  /\ pending # <<>>
  /\ pending[1].command = ProbeCommand
  /\ isProcessing
  /\ InputDisabled

\* The positions of a reply at which a ---directory--- marker ends.
DirectoryMarkerEnds(content) ==
  { n \in 3..Len(content) :
      <<content[n - 2], content[n - 1], content[n]>>
        = <<"---", "directory", "---">> }

\* The ---directory--- section of a reply: the text from the first marker
\* to the end, trimmed; <<>> when the reply has no marker.
DirectorySection(content) ==
  IF DirectoryMarkerEnds(content) = {} THEN <<>>
  ELSE LET first == CHOOSE n \in DirectoryMarkerEnds(content) :
                      \A m \in DirectoryMarkerEnds(content) : n <= m
       IN Trim([k \in 1..(Len(content) - first) |-> content[first + k]])

\* C35: in the store's exchange, the current directory after the exchange
\* is the trimmed text of the reply's ---directory--- section when the
\* section is present and not empty, and the current directory before the
\* exchange otherwise (no section, an empty one, a failed call).
C35_DirectoryFollowsReplySection ==
  [][/\ \A i \in 1..Len(pending) : \A content \in LLMReplies :
          (Settle(i, ParseLLMReply(content)) /\ confirmed')
            => currentDirectory' =
                 IF DirectorySection(content) # <<>>
                   THEN DirectorySection(content)
                   ELSE pending[i].directory
     /\ \A i \in 1..Len(pending) : \A message \in LLMFailures :
          Settle(i, LLMErrorResult(message))
            => currentDirectory' = pending[i].directory]_vars

\* An exchange begun in the home directory has moved the store to /tmp.
C35_Witness ==
  /\ pending = <<>>
  /\ history # <<>>
  /\ history[Len(history)].directory = HomeDirectory
  /\ history[Len(history)].command = CdCommand
  /\ currentDirectory = <<"/", "tmp">>

\* C36: a command executed while no oracle client has been initialized
\* makes no oracle call, adds exactly one history record, whose output is
\* an error message, leaves the current directory as it was, returns a
\* result with exitCode 1 and ends with isProcessing false.  The call
\* itself adds no oracle call and no record and moves nothing; when its
\* await resumes, the one record is added, still without an oracle call or
\* a move, the result has exitCode 1 and the flag is cleared.
C36_NoClientGivesLocalError ==
  [][/\ \A command \in StoreCommands :
          (CallExecuteCommand(command) /\ client = <<>>)
            => /\ pending' = pending
               /\ history' = history
               /\ currentDirectory' = currentDirectory
               /\ rejected' = Append(rejected, command)
     /\ ExecuteCommandCatch
          => /\ pending' = pending
             /\ Len(history') = Len(history) + 1
             /\ SubSeq(history', 1, Len(history)) = history
             /\ history'[Len(history')].command = Head(rejected)
             /\ Head(history'[Len(history')].output) = "Error: "
             /\ currentDirectory' = currentDirectory
             /\ exitCode' = <<1>>
             /\ ~isProcessing'
             /\ rejected' = Tail(rejected)]_vars

\* Two commands were executed without a client before either await resumed;
\* the first has ended with its error record, the second has yet to.
C36_Witness ==
  /\ client = <<>>
  /\ pending = <<>>
  /\ submissions = 2
  /\ rejected = <<CdCommand>>
  /\ Len(history) = 1
  /\ history[1].command = LsCommand
  /\ history[1].output = <<"Error: ">> \o ClientMissing
  /\ currentDirectory = HomeDirectory
  /\ exitCode = <<1>>
  /\ ~isProcessing

(***************************************************************************)
(* The two resolvers compared.                                             *)
(***************************************************************************)
\* An expression that is relative and does not begin with '~'.
PlainRelative(expr) ==
  expr = <<>> \/ expr[1] \notin {"/", "~"}

\* C37: the two path resolvers agree: for every current path c and every
\* relative expression that does not begin with '~' ('', '.', '..' and
\* expressions of several segments with '.' and '..' among them),
\* FileSystem.resolvePath with current directory c returns the path
\* resolvePath(c, expr) of utils/system.ts returns.
C37_ResolversAgreeOnPlainRelative ==
  PlainRelative(rsExpr) => rsLibOut = rsOut

C37_Witness ==
  /\ rsCur = <<"home", "user", "Documents">>
  /\ rsExpr = <<"a", "/", "..", "/", "b">>
  /\ PlainRelative(rsExpr)
  /\ rsOut = <<"home", "user", "Documents", "b">>
  /\ rsLibOut = rsOut

=============================================================================
